---- MODULE Spec2Model ----
(***************************************************************************)
(* Model of the RTCM monitor: the RTCM3 frame decoder and its two          *)
(* satellite-count extractors (ntrip_client.py, NTRIPClient._process_buffer *)
(* and _parse_*_satellite_count) and the NTRIP transport session           *)
(* (NTRIPClient.connect).                                                  *)
(*                                                                         *)
(* Bytes are naturals in 0..255 and a bytes object is a sequence of them.  *)
(* Python indexes from 0 and TLA+ from 1: buffer[i] of the source is       *)
(* buffer[i + 1] here.  An absent value (Python None) is the empty         *)
(* sequence and a present integer n is <<n>>.                              *)
(***************************************************************************)
EXTENDS Integers, Sequences, FiniteSets, TLC

VARIABLES
    stream,      \* the bytes the peer sends, in order (what the test feeds)
    fed,         \* how many bytes of stream have been delivered so far
    buffer,      \* the accumulator: what the last decode call left unconsumed
    callIn,      \* the buffer handed to the most recent _process_buffer call
    callMsgs,    \* the messages that call returned
    callStarts,  \* ghost: where in callIn each returned frame starts (0-based)
    callCarry,   \* ghost: how many leading bytes of callIn were left by the call before
    prevIn,      \* after a repeated call: the buffer handed to the call before it
    lastOp,      \* "none" | "feed" | "again": what the last decode call was
    out,         \* every message returned or yielded so far, in order
    pc,          \* where the session (connect) stands; "none" when there is none
    initial_data,\* what the handshake read returned
    pending,     \* messages of the last decode not yet yielded
    error,       \* the exception that ended the session, NoError while it runs
    writer,      \* "none" (never opened) | "open" | "closed"
    closes,      \* how many times writer.close() was called on the session's writer
    task,        \* self.task: 0 (None) or the id of a loop task
    update_task, \* self.update_task: 0 (None) or the id of a periodic task
    tasks,       \* every task created so far, by id
    stop_event,  \* self._stop_event.is_set()
    status,      \* the status fields of the coordinator
    now,         \* the clock datetime.now reads
    script,      \* what the peer of the current session has yet to send, read by read
    attempts,    \* ghost: how many times client.connect was called
    opened,      \* ghost: how many connections were opened
    released,    \* ghost: how many times a writer was closed
    abandoned,   \* sessions left at a yield with their connection open
    notified,    \* ghost: how many times _notify_listeners ran
    calls,       \* ghost: the calls of async_start and async_stop so far, in order
    stopPc,      \* where async_stop stands: "idle" | "awaitTask" | "awaitUpdate"
    stopWaits,   \* the id of the task async_stop awaits, 0 when it awaits none
    stopping,    \* ghost: async_stop was called, and no async_start took effect since
    peer,        \* the responses the server may give to a connection, each a list of reads
    _listeners,  \* self._listeners: the registered callbacks, in registration order
    invoked      \* ghost: the callbacks the last notification pass invoked, in order

callVars == <<callIn, callMsgs, callStarts, callCarry, prevIn, lastOp>>
sessVars == <<pc, initial_data, pending, error, writer, closes>>
supVars == <<task, update_task, tasks, stop_event, status, now, script, attempts, opened,
             released, abandoned, notified, calls, stopPc, stopWaits, stopping, peer,
             _listeners, invoked>>
vars == <<stream, fed, buffer, out, callVars, sessVars, supVars>>

----------------------------------------------------------------------------
(* Python values *)

\* None, and an integer that is present.
None == <<>>
Some(n) == <<n>>

\* s[a:b], s[a:] and s[:b] for 0 <= a, 0 <= b: a slice is clamped, it never fails.
Min(a, b) == IF a < b THEN a ELSE b
Slice(s, a, b) == SubSeq(s, a + 1, Min(b, Len(s)))
SliceFrom(s, a) == SubSeq(s, a + 1, Len(s))

\* x & (2^k - 1), x >> k and x << k on naturals.
Pow2(k) == CASE k = 0 -> 1 [] k = 1 -> 2 [] k = 2 -> 4 [] k = 3 -> 8
             [] k = 4 -> 16 [] k = 5 -> 32 [] k = 6 -> 64 [] k = 7 -> 128
             [] k = 8 -> 256
LowBits(x, k) == x % Pow2(k)
Shr(x, k) == x \div Pow2(k)
Shl(x, k) == x * Pow2(k)

\* a | b for naturals below 2^12.
RECURSIVE BitOr(_, _)
BitOr(a, b) ==
    IF a = 0 THEN b
    ELSE IF b = 0 THEN a
    ELSE (IF a % 2 = 1 \/ b % 2 = 1 THEN 1 ELSE 0) + 2 * BitOr(a \div 2, b \div 2)

\* A Python int too wide for a machine word is kept as its bits, most
\* significant first: int.from_bytes(bytes, byteorder='big').
ByteBits(b) == [i \in 1..8 |-> (b \div Pow2(8 - i)) % 2]
RECURSIVE FromBytesBig(_)
FromBytesBig(bytes) ==
    IF bytes = <<>> THEN <<>> ELSE ByteBits(Head(bytes)) \o FromBytesBig(Tail(bytes))

\* bin(x).count('1')
RECURSIVE CountOnes(_)
CountOnes(bits) ==
    IF bits = <<>> THEN 0 ELSE Head(bits) + CountOnes(Tail(bits))

\* x >> k on the bit form.
BitsShr(bits, k) == IF k >= Len(bits) THEN <<>> ELSE SubSeq(bits, 1, Len(bits) - k)

\* The value of a bit string short enough to be a machine integer.
RECURSIVE BitsValue(_)
BitsValue(bits) ==
    IF bits = <<>> THEN 0
    ELSE 2 * BitsValue(SubSeq(bits, 1, Len(bits) - 1)) + bits[Len(bits)]

\* x & 0x1F on the bit form: the five low-order bits, as an integer.
BitsAnd1F(bits) ==
    BitsValue(IF Len(bits) <= 5 THEN bits ELSE SubSeq(bits, Len(bits) - 4, Len(bits)))

----------------------------------------------------------------------------
(* The satellite-count extractors *)

\* The RTCM3 preamble byte, 0xD3.
Marker == 211

LegacyObsMessages == (1001..1004) \cup (1009..1012)

MsmRanges == {<<1074, 1077>>, <<1084, 1087>>, <<1094, 1097>>, <<1114, 1117>>, <<1124, 1127>>}

\* Mutant: the GLONASS epoch is taken to be as wide as the GPS one.
BitsBeforeSatCount_SameEpoch(is_glonass) == 55

\* bits_before_sat_count: 12 + 12 + 27 + 1 for GLONASS, 12 + 12 + 30 + 1 for GPS.
BitsBeforeSatCount(is_glonass) == IF is_glonass THEN 52 ELSE 55

\* NTRIPClient._parse_legacy_obs_satellite_count.  Nothing in its body can
\* raise (it slices, it never indexes), so its except clause is dead.
_parse_legacy_obs_satellite_count(message, msg_id) ==
    IF Len(message) < 10 THEN None
    ELSE
        LET is_glonass == 1009 <= msg_id /\ msg_id <= 1012
            bits_before_sat_count == BitsBeforeSatCount(is_glonass)
            payload_bytes == Slice(message, 3, 11)
        IN  IF Len(payload_bytes) < 8 THEN None
            ELSE
                LET bit_stream == FromBytesBig(payload_bytes)
                    shift_amount == 64 - bits_before_sat_count - 5
                    sat_count == BitsAnd1F(BitsShr(bit_stream, shift_amount))
                IN  IF 0 <= sat_count /\ sat_count <= 64
                    THEN (IF sat_count > 0 THEN Some(sat_count) ELSE None)
                    ELSE None

\* Mutant: every ID from 1074 to 1127 is taken for an MSM message.
IsMsm_OneWindow(msg_id) == 1074 <= msg_id /\ msg_id <= 1127

\* is_msm = any(start <= msg_id <= end for start, end in msm_ranges)
IsMsm(msg_id) == \E r \in MsmRanges : r[1] <= msg_id /\ msg_id <= r[2]

\* Mutant: the mask slice stops one byte early.
SatMaskBytes_Short(message) == Slice(message, 11, 18)

\* sat_mask_bytes = message[11:19]
SatMaskBytes(message) == Slice(message, 11, 19)

\* NTRIPClient._parse_msm_satellite_count
_parse_msm_satellite_count(message, msg_id) ==
    IF msg_id \in LegacyObsMessages
    THEN _parse_legacy_obs_satellite_count(message, msg_id)
    ELSE
        LET is_msm == IsMsm(msg_id)
        IN  IF ~is_msm \/ Len(message) < 14 THEN None
            ELSE IF Len(message) < 20 THEN None
            ELSE
                LET sat_mask_bytes == SatMaskBytes(message)
                    sat_mask == FromBytesBig(sat_mask_bytes)
                    sat_count == CountOnes(sat_mask)
                IN  IF sat_count > 0 THEN Some(sat_count) ELSE None

----------------------------------------------------------------------------
(* The frame decoder *)

\* Mutant: after trimming garbage the marker that ended it is dropped too.
RECURSIVE TrimInvalid_EatsMarker(_)
TrimInvalid_EatsMarker(buf) ==
    IF buf # <<>> /\ Head(buf) # Marker
    THEN (IF Len(buf) >= 2 /\ buf[2] = Marker
          THEN SubSeq(buf, 3, Len(buf))
          ELSE TrimInvalid_EatsMarker(Tail(buf)))
    ELSE buf

\* The first loop of _process_buffer: drop bytes until the buffer is empty
\* or starts with the marker.
RECURSIVE TrimInvalid(_)
TrimInvalid(buf) ==
    IF buf # <<>> /\ Head(buf) # Marker THEN TrimInvalid(Tail(buf)) ELSE buf

\* Mutant: the reserved bits are not masked off the length.
MsgLen_Unmasked(buf, idx) == BitOr(Shl(buf[idx + 2], 8), buf[idx + 3])

\* msg_len = ((buffer[idx + 1] & 0x03) << 8) | buffer[idx + 2]
MsgLen(buf, idx) == BitOr(Shl(LowBits(buf[idx + 2], 2), 8), buf[idx + 3])

\* msg_id = (buffer[idx + 3] << 4) | (buffer[idx + 4] >> 4)
MsgId(buf, idx) == BitOr(Shl(buf[idx + 4], 4), Shr(buf[idx + 5], 4))

\* The dict appended for one complete frame at idx.
MessageInfo(buf, idx) ==
    LET msg_len == MsgLen(buf, idx)
        total_msg_len == msg_len + 6
        msg_id == MsgId(buf, idx)
        sat_count == _parse_msm_satellite_count(Slice(buf, idx, idx + total_msg_len), msg_id)
    IN  [id |-> msg_id, length |-> msg_len, satellites |-> sat_count]

\* Mutant: the completeness check forgets the 3 checksum bytes.
CompleteAt_NoCrc(buf, idx, total_msg_len) == ~(Len(buf) - idx < total_msg_len - 3)

\* if len(buffer) - idx < total_msg_len: break -- the frame at idx is whole.
CompleteAt(buf, idx, total_msg_len) == ~(Len(buf) - idx < total_msg_len)

\* The second loop of _process_buffer, from idx with the messages found so
\* far; starts is a ghost list of the idx of each frame appended.
RECURSIVE ScanFrames(_, _, _, _)
ScanFrames(buf, idx, messages, starts) ==
    IF Len(buf) - idx >= 6
    THEN IF buf[idx + 1] # Marker
         THEN ScanFrames(buf, idx + 1, messages, starts)
         ELSE LET total_msg_len == MsgLen(buf, idx) + 6
              IN  IF ~CompleteAt(buf, idx, total_msg_len)
                  THEN [idx |-> idx, messages |-> messages, starts |-> starts]
                  ELSE ScanFrames(buf, idx + total_msg_len,
                                  Append(messages, MessageInfo(buf, idx)),
                                  Append(starts, idx))
    ELSE [idx |-> idx, messages |-> messages, starts |-> starts]

\* Mutant: nothing is consumed, the remaining buffer is the whole buffer.
RemainingBuffer_Whole(buf, idx) == buf

\* Mutant: the remaining buffer starts one byte late.
RemainingBuffer_OffByOne(buf, idx) == SliceFrom(buf, idx + 1)

\* remaining_buffer = buffer[idx:]
RemainingBuffer(buf, idx) == SliceFrom(buf, idx)

\* NTRIPClient._process_buffer: (remaining_buffer, messages), and as ghost
\* fields the number of bytes trimmed and the frame starts in the input.
_process_buffer(buf) ==
    LET trimmedBuf == TrimInvalid(buf)
        trimmed == Len(buf) - Len(trimmedBuf)
        scan == ScanFrames(trimmedBuf, 0, <<>>, <<>>)
    IN  [remaining |-> RemainingBuffer(trimmedBuf, scan.idx),
         messages  |-> scan.messages,
         starts    |-> [k \in 1..Len(scan.starts) |-> scan.starts[k] + trimmed]]

----------------------------------------------------------------------------
(* Test inputs: frames and byte streams *)

\* A frame of payload length len (total len + 6) carrying msg_id in its
\* first 12 payload bits, with the 6 reserved header bits set to reserved.
\* fill gives the bytes the extractors read: fill.a and fill.b are frame
\* bytes 9 and 10, fill.m and fill.m2 frame bytes 11 and 18; byte 19 is 0xFF
\* and every other byte is 0.
FrameByte(i, msg_id, len, reserved, fill) ==
    CASE i = 0  -> Marker
      [] i = 1  -> reserved * 4 + (len \div 256)
      [] i = 2  -> len % 256
      [] i = 3  -> msg_id \div 16
      [] i = 4  -> (msg_id % 16) * 16
      [] i = 9  -> fill.a
      [] i = 10 -> fill.b
      [] i = 11 -> fill.m
      [] i = 18 -> fill.m2
      [] i = 19 -> 255
      [] OTHER  -> 0

MkFrame(msg_id, len, reserved, fill) ==
    [i \in 1..(len + 6) |-> FrameByte(i - 1, msg_id, len, reserved, fill)]

ZeroFill == [a |-> 0, b |-> 0, m |-> 0, m2 |-> 0]

\* Named frames: a 1077 frame whose mask has 7 set bits, a 1003 frame
\* carrying 9 in its count field, a 1005 frame (no satellite count) with
\* and without reserved bits set, and the shortest frame there is.
Frame1077 == MkFrame(1077, 14, 0, [a |-> 0, b |-> 0, m |-> 127, m2 |-> 0])
Frame1003 == MkFrame(1003, 8, 0, [a |-> 0, b |-> 144, m |-> 0, m2 |-> 0])
Frame1005 == MkFrame(1005, 2, 0, ZeroFill)
Frame1005Reserved == MkFrame(1005, 2, 63, ZeroFill)
FrameEmpty == MkFrame(0, 0, 0, ZeroFill)

\* The first 18 bytes of a frame that declares length 20.
Partial18 == SubSeq(MkFrame(1077, 20, 0, ZeroFill), 1, 18)

\* A framed stream is a prefix (nothing, garbage, a stray marker) and two
\* pieces (nothing, a frame, part of a frame, garbage, a stray marker).
Prefixes == { <<>>, <<0, 0>>, <<0, 0, Marker>> }
Pieces ==
    { <<>>, <<0>>, <<Marker>>, FrameEmpty, Frame1005, Frame1005Reserved,
      Frame1003, Frame1077, Partial18 }
FramedStreams == {p \o a \o b : p \in Prefixes, a \in Pieces, b \in Pieces}

\* Bound: the length of a raw stream, every byte string over RawBytes.
MaxRaw == 6
RawBytes == {0, 1, Marker}

RawStreams == UNION {[1..n -> RawBytes] : n \in 0..MaxRaw}

----------------------------------------------------------------------------
(* The coordinator's fields as RTCMCoordinator.__init__ sets them *)

\* The status fields.  A timestamp and a text are None until they are set.
InitialStatus ==
    [connected |-> FALSE,
     last_message |-> None,
     last_message_type |-> None,
     message_types |-> <<>>,
     message_count |-> 0,
     last_update |-> None,
     connection_time |-> None,
     error_message |-> None,
     satellite_count |-> 0,
     gps_satellites |-> 0,
     glonass_satellites |-> 0,
     galileo_satellites |-> 0,
     beidou_satellites |-> 0,
     total_satellites |-> 0]

\* A coordinator on which async_start was never called.
NoSupervisor ==
    /\ task = 0
    /\ update_task = 0
    /\ tasks = <<>>
    /\ stop_event = FALSE
    /\ status = InitialStatus
    /\ now = 0
    /\ script = <<>>
    /\ attempts = 0
    /\ opened = 0
    /\ released = 0
    /\ abandoned = 0
    /\ notified = 0
    /\ calls = <<>>
    /\ stopPc = "idle"
    /\ stopWaits = 0
    /\ stopping = FALSE
    /\ peer = {}
    /\ _listeners = <<>>
    /\ invoked = <<>>

----------------------------------------------------------------------------
(* The decoder driven with a stream cut into chunks *)

\* No exception.
NoError == [type |-> "none", text |-> "", line |-> <<>>]

\* The decoder is driven directly: there is no session.
NoSession ==
    /\ pc = "none"
    /\ initial_data = <<>>
    /\ pending = <<>>
    /\ error = NoError
    /\ writer = "none"
    /\ closes = 0

InitDecoder ==
    /\ stream \in FramedStreams \cup RawStreams
    /\ fed = 0
    /\ buffer = <<>>
    /\ callIn = <<>>
    /\ callMsgs = <<>>
    /\ callStarts = <<>>
    /\ callCarry = 0
    /\ prevIn = <<>>
    /\ lastOp = "none"
    /\ out = <<>>
    /\ NoSession
    /\ NoSupervisor

\* One _process_buffer call on input, as connect makes it:
\* buffer, messages = self._process_buffer(buffer).
Decode(input, op) ==
    LET r == _process_buffer(input)
    IN  /\ buffer' = r.remaining
        /\ callIn' = input
        /\ callCarry' = Len(buffer)
        /\ callMsgs' = r.messages
        /\ callStarts' = r.starts
        /\ prevIn' = IF op = "again" THEN callIn ELSE <<>>
        /\ lastOp' = op
        /\ out' = out \o r.messages

\* The next k bytes arrive and the accumulator is decoded.
Feed(k) ==
    /\ fed + k <= Len(stream)
    /\ fed' = fed + k
    /\ Decode(buffer \o SubSeq(stream, fed + 1, fed + k), "feed")
    /\ UNCHANGED <<stream, sessVars, supVars>>

\* The accumulator is decoded again with no new data.
Again ==
    /\ lastOp # "again"
    /\ Decode(buffer, "again")
    /\ UNCHANGED <<stream, fed, sessVars, supVars>>

NextDecoder ==
    \/ \E k \in 1..Len(stream) : Feed(k)
    \/ Again

SpecDecoder == InitDecoder /\ [][NextDecoder]_vars

----------------------------------------------------------------------------
(* The decoder on one whole frame, alone or followed by another frame *)

\* Message IDs at and around the edges of every range the extractors know.
FrameIds ==
    { 0, 1000, 1001, 1003, 1004, 1005, 1008, 1009, 1012, 1013, 1073, 1074, 1077, 1078,
      1083, 1084, 1087, 1088, 1093, 1094, 1097, 1098, 1113, 1114, 1117, 1118,
      1123, 1124, 1127, 1128, 4095 }

\* Bound: the payload length of a generated frame (0..MaxPayload).
MaxPayload == 15

\* The bytes the extractors read, at their interesting values.
Fills ==
    [a : {0, 2, 255}, b : {0, 128, 144, 255}, m : {0, 127, 255}, m2 : {0, 1}]

GeneratedFrames ==
    {MkFrame(id, len, 0, fill) : id \in FrameIds, len \in 0..MaxPayload, fill \in Fills}

InitFrame ==
    /\ \E F \in GeneratedFrames, tail \in {<<>>, Frame1077} : stream = F \o tail
    /\ fed = 0
    /\ buffer = <<>>
    /\ callIn = <<>>
    /\ callMsgs = <<>>
    /\ callStarts = <<>>
    /\ callCarry = 0
    /\ prevIn = <<>>
    /\ lastOp = "none"
    /\ out = <<>>
    /\ NoSession
    /\ NoSupervisor

\* The whole stream is decoded in one call.
DecodeWhole ==
    /\ fed = 0
    /\ Feed(Len(stream))

SpecFrame == InitFrame /\ [][DecodeWhole]_vars

----------------------------------------------------------------------------
(* Text: what connect does with the first response line *)

\* A continuation byte of UTF-8.
IsCont(b) == 128 <= b /\ b <= 191

\* initial_data.decode('utf-8', errors='ignore'): the code points of the
\* well-formed sequences, every byte that starts none of them dropped.
RECURSIVE DecodeUtf8Ignore(_)
DecodeUtf8Ignore(bs) ==
    IF bs = <<>> THEN <<>>
    ELSE
        LET b == bs[1]
            n == Len(bs)
        IN  IF b < 128 THEN <<b>> \o DecodeUtf8Ignore(Tail(bs))
            ELSE IF /\ 194 <= b /\ b <= 223
                    /\ n >= 2 /\ IsCont(bs[2])
            THEN <<(b % 32) * 64 + (bs[2] % 64)>> \o DecodeUtf8Ignore(SubSeq(bs, 3, n))
            ELSE IF /\ 224 <= b /\ b <= 239
                    /\ n >= 3 /\ IsCont(bs[2]) /\ IsCont(bs[3])
                    /\ (b = 224 => bs[2] >= 160)
                    /\ (b = 237 => bs[2] <= 159)
            THEN <<(b % 16) * 4096 + (bs[2] % 64) * 64 + (bs[3] % 64)>>
                     \o DecodeUtf8Ignore(SubSeq(bs, 4, n))
            ELSE IF /\ 240 <= b /\ b <= 244
                    /\ n >= 4 /\ IsCont(bs[2]) /\ IsCont(bs[3]) /\ IsCont(bs[4])
                    /\ (b = 240 => bs[2] >= 144)
                    /\ (b = 244 => bs[2] <= 143)
            THEN <<(b % 8) * 262144 + (bs[2] % 64) * 4096 + (bs[3] % 64) * 64 + (bs[4] % 64)>>
                     \o DecodeUtf8Ignore(SubSeq(bs, 5, n))
            ELSE DecodeUtf8Ignore(Tail(bs))

\* data_str.split('\n')[0]: what comes before the first line feed.
RECURSIVE FirstSplit(_)
FirstSplit(str) ==
    IF str = <<>> \/ Head(str) = 10 THEN <<>> ELSE <<Head(str)>> \o FirstSplit(Tail(str))

\* The characters str.strip() removes.
IsSpace(c) ==
    c \in (9..13) \cup (28..32) \cup {133, 160, 5760} \cup (8192..8202)
              \cup {8232, 8233, 8239, 8287, 12288}

RECURSIVE LStrip(_)
LStrip(str) == IF str # <<>> /\ IsSpace(Head(str)) THEN LStrip(Tail(str)) ELSE str
RECURSIVE RStrip(_)
RStrip(str) ==
    IF str # <<>> /\ IsSpace(str[Len(str)]) THEN RStrip(SubSeq(str, 1, Len(str) - 1)) ELSE str
Strip(str) == RStrip(LStrip(str))

\* sub in str, and str.find(sub) (0-based, -1 when absent).
OccursAt(str, sub, i) == i + Len(sub) <= Len(str) /\ SubSeq(str, i + 1, i + Len(sub)) = sub
Contains(str, sub) == \E i \in 0..Len(str) : OccursAt(str, sub, i)
Find(str, sub) ==
    IF Contains(str, sub)
    THEN CHOOSE i \in 0..Len(str) :
             OccursAt(str, sub, i) /\ \A j \in 0..(i - 1) : ~OccursAt(str, sub, j)
    ELSE -1

\* "200", b"\r\n\r\n" and b"\n\n"
Text200 == <<50, 48, 48>>
CrLfCrLf == <<13, 10, 13, 10>>
LfLf == <<10, 10>>

\* first_line = data_str.split('\n')[0].strip()
FirstLine(data) == Strip(FirstSplit(DecodeUtf8Ignore(data)))

\* Mutant: the status is looked for in the whole response, not its first line.
HandshakeAccepted_AnyLine(data) == Contains(DecodeUtf8Ignore(data), Text200)

\* not ("200" not in first_line)
HandshakeAccepted(data) == Contains(FirstLine(data), Text200)

\* Mutant: the marker that comes first in the data ends the headers.
HeaderEnd_Earliest(data) ==
    LET crlf == Find(data, CrLfCrLf)
        lf == Find(data, LfLf)
    IN  IF crlf = -1 THEN (IF lf # -1 THEN lf + 2 ELSE lf)
        ELSE IF lf # -1 /\ lf < crlf THEN lf + 2
        ELSE crlf + 4

\* header_end: past the first b"\r\n\r\n", else past the first b"\n\n", else -1.
HeaderEnd(data) ==
    LET crlf == Find(data, CrLfCrLf)
    IN  IF crlf = -1
        THEN (LET lf == Find(data, LfLf) IN IF lf # -1 THEN lf + 2 ELSE lf)
        ELSE crlf + 4

\* The accumulator connect starts with: the data after the headers, or the
\* whole first read when no header end is found.
SeedBuffer(data) ==
    LET header_end == HeaderEnd(data)
    IN  IF header_end > 0 THEN SliceFrom(data, header_end) ELSE data

\* Mutant: a read replaces the accumulator.
Accumulate_Overwrite(buf, data) == data

\* buffer += data
Accumulate(buf, data) == buf \o data

----------------------------------------------------------------------------
(* The transport session: NTRIPClient.connect *)

\* The most bytes the handshake read and a later read ask for.
InitialReadSize == 8192
ReadSize == 4096

\* Response heads: "ICY 200 OK" and "HTTP/1.0 401 Unauthorized" ended by a
\* blank line, "HTTP/1.1 200 OK" ended by a bare blank line, a 404 whose
\* second header line holds 200, "ICY 200 OK" with no blank line after it,
\* a first line that holds 200 only once its ill-formed byte is dropped,
\* and no head at all.
CrLf == <<13, 10>>
HeadIcy == <<73, 67, 89, 32, 50, 48, 48, 32, 79, 75>> \o CrLfCrLf
Head401 ==
    <<72, 84, 84, 80, 47, 49, 46, 48, 32, 52, 48, 49, 32, 85, 110, 97, 117, 116,
      104, 111, 114, 105, 122, 101, 100>> \o CrLfCrLf
HeadLf == <<72, 84, 84, 80, 47, 49, 46, 49, 32, 50, 48, 48, 32, 79, 75>> \o LfLf
Head404 == <<52, 48, 52>> \o CrLf \o <<65, 58, 32, 50, 48, 48>> \o CrLfCrLf
HeadNoBlank == <<73, 67, 89, 32, 50, 48, 48, 32, 79, 75>> \o CrLf
HeadIllFormed == <<50, 211, 48, 48>> \o CrLfCrLf
\* "200", a bare blank line, the shortest frame and then \r\n\r\n: both
\* end-of-headers markers, the bare one first.
HeadBoth == <<50, 48, 48>> \o LfLf \o FrameEmpty \o CrLfCrLf
Heads == { HeadIcy, Head401, HeadLf, Head404, HeadNoBlank, HeadIllFormed, HeadBoth, <<>> }

\* Bound: the number of frames the peer sends after the head.
MaxDataFrames == 2
\* What the peer sends after the head: 1077 frames that alternate with 1005
\* frames, a stray byte before each 1005 frame.
DataFrame(i) == IF i % 2 = 1 THEN Frame1077 ELSE <<0>> \o Frame1005
RECURSIVE DataStream(_)
DataStream(n) == IF n = 0 THEN <<>> ELSE DataStream(n - 1) \o DataFrame(n)
DataStreams(n) == {DataStream(i) : i \in 0..n}

Init ==
    /\ \E head \in Heads, data \in DataStreams(MaxDataFrames) : stream = head \o data
    /\ fed = 0
    /\ buffer = <<>>
    /\ out = <<>>
    /\ callIn = <<>>
    /\ callMsgs = <<>>
    /\ callStarts = <<>>
    /\ callCarry = 0
    /\ prevIn = <<>>
    /\ lastOp = "none"
    /\ pc = "start"
    /\ initial_data = <<>>
    /\ pending = <<>>
    /\ error = NoError
    /\ writer = "none"
    /\ closes = 0
    /\ NoSupervisor

\* An exception leaves connect: the finally clause closes the writer if
\* there is one, and the session is over.
Raise(type, text, line) ==
    /\ pc' = "failed"
    /\ error' = [type |-> type, text |-> text, line |-> line]
    /\ writer' = IF writer = "open" THEN "closed" ELSE writer
    /\ closes' = IF writer = "open" THEN closes + 1 ELSE closes

\* The top of the read loop: decode a non-empty accumulator, then yield what
\* was found or, with nothing to yield, go on to read.
ProcessAndGo(buf) ==
    LET r == IF buf # <<>> THEN _process_buffer(buf)
             ELSE [remaining |-> buf, messages |-> <<>>]
    IN  /\ buffer' = r.remaining
        /\ pending' = r.messages
        /\ pc' = IF r.messages # <<>> THEN "yielding" ELSE "reading"

\* await asyncio.wait_for(asyncio.open_connection(...), timeout=10)
OpenConnection ==
    /\ pc = "start"
    /\ \/ /\ pc' = "opened"
          /\ writer' = "open"
          /\ UNCHANGED <<error, closes>>
       \/ Raise("ConnectionError", "Failed to connect", <<>>)
    /\ UNCHANGED <<stream, fed, buffer, out, callVars, initial_data, pending, supVars>>

\* writer.write(request.encode('utf-8')); await writer.drain()
SendRequest ==
    /\ pc = "opened"
    /\ pc' = "sent"
    /\ UNCHANGED <<stream, fed, buffer, out, callVars, initial_data, pending, error,
                   writer, closes, supVars>>

\* The handshake read returns k bytes: the first line is checked, the
\* accumulator is seeded and the read loop is entered.
HandshakeData(k) ==
    /\ pc = "sent"
    /\ k <= InitialReadSize
    /\ fed + k <= Len(stream)
    /\ LET data == SubSeq(stream, fed + 1, fed + k)
       IN  /\ fed' = fed + k
           /\ initial_data' = data
           /\ IF ~HandshakeAccepted(data)
              THEN /\ Raise("ConnectionError", "NTRIP server returned: ", FirstLine(data))
                   /\ UNCHANGED <<buffer, pending>>
              ELSE /\ ProcessAndGo(SeedBuffer(data))
                   /\ UNCHANGED <<error, writer, closes>>
    /\ UNCHANGED <<stream, out, callVars, supVars>>

\* Mutant: after an empty handshake read the request is sent again.
HandshakeEmpty_Retry ==
    /\ pc = "sent"
    /\ pc' = "opened"
    /\ UNCHANGED <<stream, fed, buffer, out, callVars, initial_data, pending, error,
                   writer, closes, supVars>>

\* The handshake read returns nothing: the server closed the connection.
HandshakeEmpty ==
    /\ pc = "sent"
    /\ Raise("ConnectionError", "Server closed connection without sending response", <<>>)
    /\ UNCHANGED <<stream, fed, buffer, out, callVars, initial_data, pending, supVars>>

\* The handshake read times out.
HandshakeTimeout ==
    /\ pc = "sent"
    /\ Raise("ConnectionError", "Timeout waiting for HTTP response (10s)", <<>>)
    /\ UNCHANGED <<stream, fed, buffer, out, callVars, initial_data, pending, supVars>>

\* yield msg_info: the consumer takes the next message; after the last one
\* connect goes on to read.
Yield ==
    /\ pc = "yielding"
    /\ out' = Append(out, Head(pending))
    /\ pending' = Tail(pending)
    /\ pc' = IF Tail(pending) = <<>> THEN "reading" ELSE "yielding"
    /\ UNCHANGED <<stream, fed, buffer, callVars, initial_data, error, writer, closes, supVars>>

\* A read returns k bytes: they are appended and the accumulator is decoded.
ReadData(k) ==
    /\ pc = "reading"
    /\ k <= ReadSize
    /\ fed + k <= Len(stream)
    /\ fed' = fed + k
    /\ ProcessAndGo(Accumulate(buffer, SubSeq(stream, fed + 1, fed + k)))
    /\ UNCHANGED <<stream, out, callVars, initial_data, error, writer, closes, supVars>>

\* A read times out: asyncio.TimeoutError leaves connect.
ReadTimeout ==
    /\ pc = "reading"
    /\ Raise("TimeoutError", "", <<>>)
    /\ UNCHANGED <<stream, fed, buffer, out, callVars, initial_data, pending, supVars>>

\* A read returns nothing: the peer closed the stream.
ReadClosed ==
    /\ pc = "reading"
    /\ Raise("ConnectionError", "Stream closed by server", <<>>)
    /\ UNCHANGED <<stream, fed, buffer, out, callVars, initial_data, pending, supVars>>

Next ==
    \/ OpenConnection
    \/ SendRequest
    \/ \E k \in 1..Len(stream) : HandshakeData(k)
    \/ HandshakeEmpty
    \/ HandshakeTimeout
    \/ Yield
    \/ \E k \in 1..Len(stream) : ReadData(k)
    \/ ReadTimeout
    \/ ReadClosed

Spec == Init /\ [][Next]_vars

----------------------------------------------------------------------------
(* The coordinator: what _run does with one message *)

\* Bound standing for MAX_MESSAGE_TYPES, the most message types kept.
MAX_MESSAGE_TYPES == 2

\* if sat_count: a count that is present and not 0.
Truthy(sat_count) == sat_count # None /\ sat_count[1] # 0

\* list[-n:]: the last n elements, the whole list when n is 0.
LastN(list, n) ==
    IF n = 0 \/ n >= Len(list) THEN list
    ELSE SubSeq(list, Len(list) - n + 1, Len(list))

InSeq(x, list) == \E i \in 1..Len(list) : list[i] = x

\* Mutant: at the cap the newest type is dropped, not the oldest.
TrackType_KeepFirst(message_types, msg_type) ==
    IF InSeq(msg_type, message_types) THEN message_types
    ELSE SubSeq(Append(message_types, msg_type), 1,
                Min(Len(message_types) + 1, MAX_MESSAGE_TYPES))

\* Track unique message types with size limit.
TrackType(message_types, msg_type) ==
    IF InSeq(msg_type, message_types) THEN message_types
    ELSE LET appended == Append(message_types, msg_type)
         IN  IF Len(appended) > MAX_MESSAGE_TYPES
             THEN LastN(appended, MAX_MESSAGE_TYPES)
             ELSE appended

\* Mutant: the count is assigned and the total is left as it was.
UpdateSatellites_StaleTotal(st, msg_type, sat_count) ==
    IF ~Truthy(sat_count) THEN st
    ELSE LET n == sat_count[1]
         IN  IF msg_type \in (1001..1004) \cup (1074..1077)
             THEN [st EXCEPT !.gps_satellites = n]
             ELSE IF msg_type \in (1009..1012) \cup (1084..1087)
             THEN [st EXCEPT !.glonass_satellites = n]
             ELSE IF msg_type \in 1094..1097
             THEN [st EXCEPT !.galileo_satellites = n]
             ELSE IF msg_type \in 1124..1127
             THEN [st EXCEPT !.beidou_satellites = n]
             ELSE st

\* Mutant: a count is added to the constellation's count.
UpdateSatellites_Sum(st, msg_type, sat_count) ==
    IF ~Truthy(sat_count) THEN st
    ELSE LET n == sat_count[1]
             s1 == IF msg_type \in (1001..1004) \cup (1074..1077)
                   THEN [st EXCEPT !.gps_satellites = @ + n]
                   ELSE IF msg_type \in (1009..1012) \cup (1084..1087)
                   THEN [st EXCEPT !.glonass_satellites = @ + n]
                   ELSE IF msg_type \in 1094..1097
                   THEN [st EXCEPT !.galileo_satellites = @ + n]
                   ELSE IF msg_type \in 1124..1127
                   THEN [st EXCEPT !.beidou_satellites = @ + n]
                   ELSE st
         IN  [s1 EXCEPT !.total_satellites =
                  s1.gps_satellites + s1.glonass_satellites
                      + s1.galileo_satellites + s1.beidou_satellites]

\* Update satellite counts by constellation, then the total.
UpdateSatellites(st, msg_type, sat_count) ==
    IF ~Truthy(sat_count) THEN st
    ELSE LET n == sat_count[1]
             s1 == IF 1001 <= msg_type /\ msg_type <= 1004
                   THEN [st EXCEPT !.gps_satellites = n]
                   ELSE IF 1009 <= msg_type /\ msg_type <= 1012
                   THEN [st EXCEPT !.glonass_satellites = n]
                   ELSE IF 1074 <= msg_type /\ msg_type <= 1077
                   THEN [st EXCEPT !.gps_satellites = n]
                   ELSE IF 1084 <= msg_type /\ msg_type <= 1087
                   THEN [st EXCEPT !.glonass_satellites = n]
                   ELSE IF 1094 <= msg_type /\ msg_type <= 1097
                   THEN [st EXCEPT !.galileo_satellites = n]
                   ELSE IF 1124 <= msg_type /\ msg_type <= 1127
                   THEN [st EXCEPT !.beidou_satellites = n]
                   ELSE st
         IN  [s1 EXCEPT !.total_satellites =
                  s1.gps_satellites + s1.glonass_satellites
                      + s1.galileo_satellites + s1.beidou_satellites]

\* Mutant: every message records a connection time.
MarkConnected_Always(st, t) ==
    [st EXCEPT !.connected = TRUE, !.connection_time = Some(t)]

\* if not self.connected: connected = True, connection_time = now
MarkConnected(st, t) ==
    IF ~st.connected
    THEN [st EXCEPT !.connected = TRUE, !.connection_time = Some(t)]
    ELSE st

\* f"RTCM {msg_type} ({sat_count} sats)" or f"RTCM {msg_type}"
LastMessage(msg_type, sat_count) ==
    IF Truthy(sat_count)
    THEN Some([text |-> "RTCM", msg_type |-> msg_type, sats |-> sat_count])
    ELSE Some([text |-> "RTCM", msg_type |-> msg_type, sats |-> None])

\* The body of the async for loop for one message read at time t.
ProcessMessage(st, msg_info, t) ==
    LET msg_type == msg_info.id
        sat_count == msg_info.satellites
        s1 == MarkConnected(st, t)
        s2 == [s1 EXCEPT !.last_update = Some(t),
                         !.last_message_type = Some(msg_type),
                         !.message_count = @ + 1,
                         !.message_types = TrackType(@, msg_type)]
        s3 == UpdateSatellites(s2, msg_type, sat_count)
    IN  [s3 EXCEPT !.last_message = LastMessage(msg_type, sat_count)]

\* The loop body over the messages one decode found, in order; the clock
\* moves on with every message.
RECURSIVE ProcessMessages(_, _, _)
ProcessMessages(st, messages, t) ==
    IF messages = <<>> THEN st
    ELSE ProcessMessages(ProcessMessage(st, Head(messages), t + 1), Tail(messages), t + 1)

\* Mutant: every failure is recorded by the clause that takes str(e).
ErrorText_StrOnly(e) == Some([text |-> e.text, line |-> e.line])

\* except ...: connected = False, error_message = the text of the failure.
ErrorText(e) ==
    IF e.type = "TimeoutError" THEN Some([text |-> "Connection timeout", line |-> <<>>])
    ELSE Some([text |-> e.text, line |-> e.line])

\* Mutant: a failure also starts the message count again.
RecordFailure_ResetCount(st, e) ==
    [st EXCEPT !.connected = FALSE, !.error_message = ErrorText(e), !.message_count = 0]

\* Mutant: a failure also forgets the satellites that were in view.
RecordFailure_ClearsSatellites(st, e) ==
    [st EXCEPT !.connected = FALSE, !.error_message = ErrorText(e),
               !.gps_satellites = 0, !.total_satellites = 0]

\* Mutant: the failure leaves the status as it was.
RecordFailure_Nothing(st, e) == st

RecordFailure(st, e) ==
    [st EXCEPT !.connected = FALSE, !.error_message = ErrorText(e)]

----------------------------------------------------------------------------
(* The coordinator's tasks.  A task runs from one await to the next without *)
(* interruption; it is cancelled by a CancelledError raised at the await it *)
(* is suspended in.                                                         *)

\* Bounds: the sessions a run may start, the periodic notifications, the
\* calls of async_start and async_stop.
MaxAttempts == 2
MaxNotified == 2
MaxCalls == 3

NewTask(kind) == [kind |-> kind, at |-> "new", must_cancel |-> FALSE, result |-> "pending"]

IsTask(t, kind) == t \in 1..Len(tasks) /\ tasks[t].kind = kind
\* not task.done()
Running(t) == t \in 1..Len(tasks) /\ tasks[t].result = "pending"

\* The task goes on to its next await, or ends.
Goes(t, at) == tasks' = [tasks EXCEPT ![t].at = at, ![t].must_cancel = FALSE]
Ends(t, result) ==
    tasks' = [tasks EXCEPT ![t].at = "done", ![t].must_cancel = FALSE, ![t].result = result]

CancelledError == [type |-> "CancelledError", text |-> "", line |-> <<>>]

\* Mutant: the exception leaves connect without the writer being closed.
EnterFinally_Leak(e) ==
    /\ pc' = "closing"
    /\ error' = e
    /\ UNCHANGED <<writer, closes, released>>

\* An exception is raised inside the second try of connect: the finally
\* clause closes the writer and awaits wait_closed.
EnterFinally(e) ==
    /\ pc' = "closing"
    /\ error' = e
    /\ writer' = "closed"
    /\ closes' = closes + 1
    /\ released' = released + 1

\* The callbacks that get registered: 1 writes its entity's state and
\* returns, as the callbacks of the repository do; 2 removes itself when it
\* is invoked; 3 removes callback 1; 4 raises an exception.
Callbacks == {1, 2, 3, 4}
Target(c) == CASE c = 2 -> 2 [] c = 3 -> 1 [] OTHER -> 0
Raises(c) == c = 4

\* Bound: the registrations there can be at a time.
MaxListeners == 2

\* list.remove(x): the first occurrence of x leaves the list.
RECURSIVE RemoveFirst(_, _)
RemoveFirst(list, x) ==
    IF list = <<>> THEN <<>>
    ELSE IF Head(list) = x THEN Tail(list)
    ELSE <<Head(list)>> \o RemoveFirst(Tail(list), x)

\* remove_listener: if update_callback in self._listeners: remove it.
Removed(list, update_callback) ==
    IF InSeq(update_callback, list) THEN RemoveFirst(list, update_callback) ELSE list

\* callback(): what the call of callback c leaves of the list.
Called(c, list) == IF Target(c) = 0 THEN list ELSE Removed(list, Target(c))

\* for callback in self._listeners: callback() -- the list iterator holds
\* an index into the list itself: it yields list[i] while i < len(list),
\* whatever the calls before did to the list.  No statement of the loop
\* catches what a callback raises: the exception ends the pass.
RECURSIVE Pass(_, _, _)
Pass(list, i, log) ==
    IF i >= Len(list) THEN [list |-> list, log |-> log, raised |-> FALSE]
    ELSE IF Raises(list[i + 1])
    THEN [list |-> list, log |-> Append(log, list[i + 1]), raised |-> TRUE]
    ELSE Pass(Called(list[i + 1], list), i + 1, Append(log, list[i + 1]))

\* One run of _notify_listeners, which has no await.
NotifyListeners ==
    LET r == Pass(_listeners, 0, <<>>)
    IN  /\ _listeners' = r.list
        /\ invoked' = r.log
        /\ notified' = notified + 1

\* await self._notify_listeners() raises what a callback raised.
ListenerRaises == Pass(_listeners, 0, <<>>).raised

\* What a step that notifies nobody leaves alone.
notifies == <<notified, _listeners, invoked>>

\* Mutant: no except clause catches the failure, which ends the loop task.
HandleFailure_Propagates(t, e) ==
    /\ pc' = "failed"
    /\ error' = e
    /\ Ends(t, "raised")
    /\ UNCHANGED <<status, notifies>>

\* A failure of the session reaches _run: one of the except clauses
\* records it and notifies the listeners; then _run sleeps unless a stop
\* was requested, in which case the while loop ends.  What a callback
\* raises is raised inside the except clause, where no clause of the try
\* statement catches it: it ends the loop task.
HandleFailure(t, e) ==
    /\ pc' = "failed"
    /\ error' = e
    /\ status' = RecordFailure(status, e)
    /\ NotifyListeners
    /\ IF ListenerRaises THEN Ends(t, "raised")
       ELSE IF ~stop_event THEN Goes(t, "sleep") ELSE Ends(t, "returned")

\* connect found these messages and yields them one by one to the loop
\* body of _run, which breaks at the first when a stop was requested; the
\* generator is then left at its yield with the connection open.
Deliver(t, messages) ==
    IF messages = <<>>
    THEN /\ pc' = "reading"
         /\ Goes(t, "session")
         /\ UNCHANGED <<out, status, now, abandoned, writer, closes>>
    ELSE IF stop_event
    THEN /\ pc' = "none"
         /\ abandoned' = abandoned + 1
         /\ writer' = "none"
         /\ closes' = 0
         /\ Ends(t, "returned")
         /\ UNCHANGED <<out, status, now>>
    ELSE /\ pc' = "reading"
         /\ Goes(t, "session")
         /\ out' = out \o messages
         /\ status' = ProcessMessages(status, messages, now)
         /\ now' = now + Len(messages)
         /\ UNCHANGED <<abandoned, writer, closes>>

\* What no step of a task changes.
aside == <<stream, fed, callVars, pending, peer>>
callers == <<task, update_task, stop_event, calls, stopPc, stopWaits, stopping>>

\* Mutant: the accumulator of the last session is kept for the next.
RunLoop_KeepsBuffer(t) ==
    /\ IsTask(t, "run") /\ Running(t)
    /\ tasks[t].at \in {"new", "sleep"}
    /\ ~tasks[t].must_cancel
    /\ IF stop_event
       THEN /\ Ends(t, "returned")
            /\ UNCHANGED <<status, attempts, script, pc, initial_data, buffer, out, error,
                           writer, closes>>
       ELSE /\ attempts < MaxAttempts
            /\ attempts' = attempts + 1
            /\ status' = [status EXCEPT !.error_message = None]
            /\ script' \in peer
            /\ pc' = "start"
            /\ initial_data' = <<>>
            /\ buffer' = buffer
            /\ out' = <<>>
            /\ error' = NoError
            /\ writer' = "none"
            /\ closes' = 0
            /\ Goes(t, "session")
    /\ UNCHANGED <<aside, callers, now, opened, released, abandoned, notifies>>

\* The top of the while loop of _run, at the start of the task and after
\* the sleep: error_message is cleared and client.connect is called, which
\* runs up to the await of open_connection.
RunLoop(t) ==
    /\ IsTask(t, "run") /\ Running(t)
    /\ tasks[t].at \in {"new", "sleep"}
    /\ ~tasks[t].must_cancel
    /\ IF stop_event
       THEN /\ Ends(t, "returned")
            /\ UNCHANGED <<status, attempts, script, pc, initial_data, buffer, out, error,
                           writer, closes>>
       ELSE /\ attempts < MaxAttempts
            /\ attempts' = attempts + 1
            /\ status' = [status EXCEPT !.error_message = None]
            /\ script' \in peer
            /\ pc' = "start"
            /\ initial_data' = <<>>
            /\ buffer' = <<>>
            /\ out' = <<>>
            /\ error' = NoError
            /\ writer' = "none"
            /\ closes' = 0
            /\ Goes(t, "session")
    /\ UNCHANGED <<aside, callers, now, opened, released, abandoned, notifies>>

\* The CancelledError of task.cancel() is raised at the await the loop task
\* is suspended in.
RunCancelled(t) ==
    /\ IsTask(t, "run") /\ Running(t)
    /\ tasks[t].must_cancel
    /\ IF tasks[t].at \in {"new", "sleep"}
       THEN /\ Ends(t, "cancelled")
            /\ UNCHANGED <<pc, error, writer, closes, released>>
       ELSE IF pc \in {"start", "closing"}
       THEN /\ Ends(t, "cancelled")
            /\ pc' = "failed"
            /\ error' = CancelledError
            /\ UNCHANGED <<writer, closes, released>>
       ELSE /\ EnterFinally(CancelledError)
            /\ Goes(t, "session")
    /\ UNCHANGED <<aside, callers, status, now, script, attempts, opened, abandoned,
                   notifies, initial_data, buffer, out>>

\* The loop task is suspended in connect at the await that pc names.  A
\* wait_for whose operation has completed when the task is cancelled may
\* hand over the result in place of the CancelledError.
InSession(t, at) == IsTask(t, "run") /\ Running(t) /\ tasks[t].at = "session" /\ pc = at

\* await asyncio.wait_for(asyncio.open_connection(...), timeout=10): the
\* connection is opened and the request written, or the failure leaves
\* connect as a ConnectionError, outside the try that has the finally.
RunOpenConnection(t) ==
    /\ InSession(t, "start")
    /\ \/ /\ pc' = "opened"
          /\ writer' = "open"
          /\ opened' = opened + 1
          /\ Goes(t, "session")
          /\ UNCHANGED <<error, status, notifies>>
       \/ /\ HandleFailure(t, [type |-> "ConnectionError", text |-> "Failed to connect",
                                line |-> <<>>])
          /\ UNCHANGED <<writer, opened>>
    /\ UNCHANGED <<aside, callers, now, script, attempts, released, abandoned, closes,
                   initial_data, buffer, out>>

\* await writer.drain() returns and the handshake read is awaited.
RunSendRequest(t) ==
    /\ InSession(t, "opened")
    /\ ~tasks[t].must_cancel
    /\ pc' = "sent"
    /\ Goes(t, "session")
    /\ UNCHANGED <<aside, callers, status, now, script, attempts, opened, released,
                   abandoned, notifies, initial_data, buffer, out, error, writer, closes>>

\* The handshake read returns the peer's first read.
RunHandshakeData(t) ==
    /\ InSession(t, "sent")
    /\ script # <<>>
    /\ script' = Tail(script)
    /\ initial_data' = Head(script)
    /\ IF ~HandshakeAccepted(Head(script))
       THEN /\ EnterFinally([type |-> "ConnectionError", text |-> "NTRIP server returned: ",
                              line |-> FirstLine(Head(script))])
            /\ Goes(t, "session")
            /\ UNCHANGED <<buffer, out, status, now, abandoned>>
       ELSE LET seed == SeedBuffer(Head(script))
                r == IF seed # <<>> THEN _process_buffer(seed)
                     ELSE [remaining |-> seed, messages |-> <<>>]
            IN  /\ buffer' = r.remaining
                /\ Deliver(t, r.messages)
                /\ UNCHANGED <<error, released>>
    /\ UNCHANGED <<aside, callers, attempts, opened, notifies>>

\* The handshake read returns nothing.
RunHandshakeEmpty(t) ==
    /\ InSession(t, "sent")
    /\ EnterFinally([type |-> "ConnectionError",
                     text |-> "Server closed connection without sending response",
                     line |-> <<>>])
    /\ Goes(t, "session")
    /\ UNCHANGED <<aside, callers, status, now, script, attempts, opened, abandoned,
                   notifies, initial_data, buffer, out>>

\* The handshake read times out.
RunHandshakeTimeout(t) ==
    /\ InSession(t, "sent")
    /\ ~tasks[t].must_cancel
    /\ EnterFinally([type |-> "ConnectionError",
                     text |-> "Timeout waiting for HTTP response (10s)", line |-> <<>>])
    /\ Goes(t, "session")
    /\ UNCHANGED <<aside, callers, status, now, script, attempts, opened, abandoned,
                   notifies, initial_data, buffer, out>>

\* A read returns the peer's next read: it is appended, the accumulator is
\* decoded and the messages are yielded.
RunReadData(t) ==
    /\ InSession(t, "reading")
    /\ script # <<>>
    /\ script' = Tail(script)
    /\ LET buf == Accumulate(buffer, Head(script))
           r == IF buf # <<>> THEN _process_buffer(buf)
                ELSE [remaining |-> buf, messages |-> <<>>]
       IN  /\ buffer' = r.remaining
           /\ Deliver(t, r.messages)
    /\ UNCHANGED <<aside, callers, attempts, opened, released, notifies, initial_data, error>>

\* A read times out: asyncio.TimeoutError is re-raised.
RunReadTimeout(t) ==
    /\ InSession(t, "reading")
    /\ ~tasks[t].must_cancel
    /\ EnterFinally([type |-> "TimeoutError", text |-> "", line |-> <<>>])
    /\ Goes(t, "session")
    /\ UNCHANGED <<aside, callers, status, now, script, attempts, opened, abandoned,
                   notifies, initial_data, buffer, out>>

\* A read returns nothing: ConnectionError("Stream closed by server").
RunReadClosed(t) ==
    /\ InSession(t, "reading")
    /\ EnterFinally([type |-> "ConnectionError", text |-> "Stream closed by server",
                     line |-> <<>>])
    /\ Goes(t, "session")
    /\ UNCHANGED <<aside, callers, status, now, script, attempts, opened, abandoned,
                   notifies, initial_data, buffer, out>>

\* A read fails with an error of the transport, an OSError.
RunReadError(t) ==
    /\ InSession(t, "reading")
    /\ EnterFinally([type |-> "OSError", text |-> "Connection reset by peer", line |-> <<>>])
    /\ Goes(t, "session")
    /\ UNCHANGED <<aside, callers, status, now, script, attempts, opened, abandoned,
                   notifies, initial_data, buffer, out>>

\* await writer.wait_closed() returns: the exception leaves connect.  A
\* CancelledError ends the task; anything else is caught by _run.
RunClosed(t) ==
    /\ InSession(t, "closing")
    /\ ~tasks[t].must_cancel
    /\ IF error.type = "CancelledError"
       THEN /\ Ends(t, "cancelled")
            /\ pc' = "failed"
            /\ UNCHANGED <<error, status, notifies>>
       ELSE HandleFailure(t, error)
    /\ UNCHANGED <<aside, callers, now, script, attempts, opened, released, abandoned,
                   initial_data, buffer, out, writer, closes>>

\* The event loop finalizes a generator that was left at its yield: aclose
\* raises GeneratorExit there and the finally clause closes the writer.
Finalize ==
    /\ abandoned > 0
    /\ abandoned' = abandoned - 1
    /\ released' = released + 1
    /\ UNCHANGED <<aside, callers, tasks, status, now, script, attempts, opened, notifies,
                   initial_data, buffer, out, pc, error, writer, closes>>

\* What no step of the periodic task and no call changes of the session.
session == <<buffer, out, pc, initial_data, error, writer, closes, script>>
ghosts == <<attempts, opened, released, abandoned>>

\* _periodic_update starts: while not stop_event, sleep.
PeriodicStart(p) ==
    /\ IsTask(p, "periodic") /\ Running(p)
    /\ tasks[p].at = "new"
    /\ ~tasks[p].must_cancel
    /\ IF stop_event THEN Ends(p, "returned") ELSE Goes(p, "sleep")
    /\ UNCHANGED <<aside, callers, session, ghosts, status, now, notifies>>

\* The sleep of update_interval ends: the listeners are notified and the
\* while condition is tested again.  The except clause catches
\* CancelledError only: what a callback raises ends the periodic task.
PeriodicTick(p) ==
    /\ IsTask(p, "periodic") /\ Running(p)
    /\ tasks[p].at = "sleep"
    /\ ~tasks[p].must_cancel
    /\ notified < MaxNotified
    /\ NotifyListeners
    /\ IF ListenerRaises THEN Ends(p, "raised")
       ELSE IF stop_event THEN Ends(p, "returned") ELSE Goes(p, "sleep")
    /\ UNCHANGED <<aside, callers, session, ghosts, status, now>>

\* The periodic task is cancelled: before it ever ran it ends cancelled, in
\* its sleep the CancelledError is caught and the loop left.
PeriodicCancelled(p) ==
    /\ IsTask(p, "periodic") /\ Running(p)
    /\ tasks[p].must_cancel
    /\ IF tasks[p].at = "new" THEN Ends(p, "cancelled") ELSE Ends(p, "returned")
    /\ UNCHANGED <<aside, callers, session, ghosts, status, now, notifies>>

\* Mutant: async_start starts a loop whether or not one is running.
ShouldStart_Always == TRUE

\* not self.task or self.task.done()
ShouldStart == task = 0 \/ ~Running(task)

\* async_start: it has no await and runs as one step.
async_start ==
    /\ Len(calls) < MaxCalls
    /\ calls' = Append(calls, "start")
    /\ IF ShouldStart
       THEN /\ stop_event' = FALSE
            /\ tasks' = tasks \o <<NewTask("run"), NewTask("periodic")>>
            /\ task' = Len(tasks) + 1
            /\ update_task' = Len(tasks) + 2
            /\ stopping' = FALSE
       ELSE UNCHANGED <<stop_event, tasks, task, update_task, stopping>>
    /\ UNCHANGED <<aside, session, ghosts, status, now, notifies, stopPc, stopWaits>>

\* task.cancel()
Cancel(ts, t) == [ts EXCEPT ![t].must_cancel = TRUE]

\* Lines 82-87 of async_stop: the periodic task is cancelled and awaited if
\* it is not done; otherwise async_stop returns.
StopUpdateTask(ts) ==
    IF update_task # 0 /\ Running(update_task)
    THEN /\ tasks' = Cancel(ts, update_task)
         /\ stopPc' = "awaitUpdate"
         /\ stopWaits' = update_task
    ELSE /\ tasks' = ts
         /\ stopPc' = "idle"
         /\ stopWaits' = 0

\* Mutant: async_stop cancels the loop task without setting the stop event.
async_stop_NoEvent ==
    /\ stopPc = "idle"
    /\ Len(calls) < MaxCalls
    /\ calls' = Append(calls, "stop")
    /\ stopping' = TRUE
    /\ IF task # 0 /\ Running(task)
       THEN /\ tasks' = Cancel(tasks, task)
            /\ stopPc' = "awaitTask"
            /\ stopWaits' = task
       ELSE StopUpdateTask(tasks)
    /\ UNCHANGED <<aside, session, ghosts, status, now, notifies, task, update_task,
                   stop_event>>

\* async_stop is called: the stop event is set, the loop task is cancelled
\* and awaited if it is not done.
async_stop ==
    /\ stopPc = "idle"
    /\ Len(calls) < MaxCalls
    /\ calls' = Append(calls, "stop")
    /\ stop_event' = TRUE
    /\ stopping' = TRUE
    /\ IF task # 0 /\ Running(task)
       THEN /\ tasks' = Cancel(tasks, task)
            /\ stopPc' = "awaitTask"
            /\ stopWaits' = task
       ELSE StopUpdateTask(tasks)
    /\ UNCHANGED <<aside, session, ghosts, status, now, notifies, task, update_task>>

\* Mutant: async_stop does not wait for the task it cancelled.
Awaited_NoWait(t) == TRUE

\* await task returns or raises CancelledError: the task is done.
Awaited(t) == ~Running(t)

\* await self.task is over.  When the loop task ended with an exception
\* other than CancelledError the await raises it and async_stop is left
\* before line 82.
StopAfterTask ==
    /\ stopPc = "awaitTask"
    /\ Awaited(stopWaits)
    /\ IF tasks[stopWaits].result = "raised"
       THEN /\ stopPc' = "idle"
            /\ stopWaits' = 0
            /\ UNCHANGED tasks
       ELSE StopUpdateTask(tasks)
    /\ UNCHANGED <<aside, session, ghosts, status, now, notifies, task, update_task,
                   stop_event, calls, stopping>>

\* await self.update_task is over: async_stop returns.
StopAfterUpdate ==
    /\ stopPc = "awaitUpdate"
    /\ Awaited(stopWaits)
    /\ stopPc' = "idle"
    /\ stopWaits' = 0
    /\ UNCHANGED <<aside, session, ghosts, status, now, notifies, task, update_task,
                   stop_event, calls, stopping, tasks>>

\* Bound: the tasks there can be.
TaskIds == 1..(2 * MaxCalls)

\* The steps of the loop task.
RunStep(t) ==
    \/ RunLoop(t)
    \/ RunCancelled(t)
    \/ RunOpenConnection(t)
    \/ RunSendRequest(t)
    \/ RunHandshakeData(t)
    \/ RunHandshakeEmpty(t)
    \/ RunHandshakeTimeout(t)
    \/ RunReadData(t)
    \/ RunReadTimeout(t)
    \/ RunReadClosed(t)
    \/ RunReadError(t)
    \/ RunClosed(t)

NextSupervisor ==
    \/ async_start
    \/ async_stop
    \/ StopAfterTask
    \/ StopAfterUpdate
    \/ \E t \in TaskIds : RunStep(t)
    \/ \E p \in TaskIds : PeriodicStart(p)
    \/ \E p \in TaskIds : PeriodicTick(p)
    \/ \E p \in TaskIds : PeriodicCancelled(p)
    \/ Finalize

\* The responses of the peer: accepted with a 1077 frame and then a 1003
\* frame, or refused.
PeerResponses == { <<HeadIcy \o Frame1077, Frame1003>>, <<Head401 \o Frame1077>> }

\* A coordinator as constructed, with no session.
InitCoordinator(responses) ==
    /\ stream = <<>>
    /\ fed = 0
    /\ buffer = <<>>
    /\ out = <<>>
    /\ callIn = <<>>
    /\ callMsgs = <<>>
    /\ callStarts = <<>>
    /\ callCarry = 0
    /\ prevIn = <<>>
    /\ lastOp = "none"
    /\ NoSession
    /\ task = 0
    /\ update_task = 0
    /\ tasks = <<>>
    /\ stop_event = FALSE
    /\ status = InitialStatus
    /\ now = 0
    /\ script = <<>>
    /\ attempts = 0
    /\ opened = 0
    /\ released = 0
    /\ abandoned = 0
    /\ notified = 0
    /\ calls = <<>>
    /\ stopPc = "idle"
    /\ stopWaits = 0
    /\ stopping = FALSE
    /\ peer = responses
    /\ _listeners = <<>>
    /\ invoked = <<>>

InitSupervisor == InitCoordinator(PeerResponses)

SpecSupervisor == InitSupervisor /\ [][NextSupervisor]_vars

----------------------------------------------------------------------------
(* The coordinator fed a variety of messages *)

\* Frames of every range the coordinator knows and of some it does not: a
\* GLONASS legacy frame carrying 5, MSM frames with 2, 8, 4 and 3 set mask
\* bits, and an MSM frame whose mask is empty.
Frame1012 == MkFrame(1012, 8, 0, [a |-> 2, b |-> 128, m |-> 0, m2 |-> 0])
Frame1087 == MkFrame(1087, 14, 0, [a |-> 0, b |-> 0, m |-> 3, m2 |-> 0])
Frame1097 == MkFrame(1097, 14, 0, [a |-> 0, b |-> 0, m |-> 255, m2 |-> 0])
Frame1117 == MkFrame(1117, 14, 0, [a |-> 0, b |-> 0, m |-> 15, m2 |-> 0])
Frame1127 == MkFrame(1127, 14, 0, [a |-> 0, b |-> 0, m |-> 6, m2 |-> 1])
Frame1074Empty == MkFrame(1074, 14, 0, ZeroFill)

StatusFrames ==
    << Frame1003, Frame1012, Frame1077, Frame1087, Frame1097, Frame1117, Frame1127,
       Frame1005, Frame1074Empty >>

\* Bound: the reads of a session after the handshake read.
MaxReads == 3

\* The frames taken in a circle.
FrameAt(i) == StatusFrames[((i - 1) % Len(StatusFrames)) + 1]

\* A response of the peer: the handshake with one frame, then reads of one
\* frame and of two frames in turn.
StatusResponse(i) ==
    <<HeadIcy \o FrameAt(i)>> \o
    [k \in 1..MaxReads |->
        IF k % 2 = 1 THEN FrameAt(i + k) ELSE FrameAt(i + k) \o FrameAt(i + k + 4)]

\* Two responses for two connections in a row: the first ends 8 bytes into
\* a 1003 frame, the second begins with the 6 bytes that would end it.
ResponseCutShort == <<HeadIcy \o Frame1077 \o SubSeq(Frame1003, 1, 8)>>
ResponseTail == <<HeadIcy \o SubSeq(Frame1003, 9, 14) \o Frame1005>>

StatusResponses ==
    {StatusResponse(i) : i \in 1..Len(StatusFrames)} \cup {ResponseCutShort, ResponseTail}

InitStatus == InitCoordinator(StatusResponses)

\* The coordinator is started and left running: sessions that stream until
\* the peer closes.
NextStatus ==
    \/ async_start
    \/ \E t \in TaskIds : RunLoop(t)
    \/ \E t \in TaskIds : RunOpenConnection(t)
    \/ \E t \in TaskIds : RunSendRequest(t)
    \/ \E t \in TaskIds : RunHandshakeData(t)
    \/ \E t \in TaskIds : RunReadData(t)
    \/ \E t \in TaskIds : RunReadClosed(t)
    \/ \E t \in TaskIds : RunClosed(t)

SpecStatus == InitStatus /\ [][NextStatus]_vars

----------------------------------------------------------------------------
(* The coordinator and its listeners *)

\* What a registration and a removal leave alone.
coordinator ==
    <<stream, fed, callVars, pending, peer, callers, session, ghosts, tasks, status, now,
      notified, invoked>>

\* register_listener: self._listeners.append(update_callback)
register_listener(update_callback) ==
    /\ Len(_listeners) < MaxListeners
    /\ _listeners' = Append(_listeners, update_callback)
    /\ UNCHANGED coordinator

\* remove_listener
remove_listener(update_callback) ==
    /\ _listeners' = Removed(_listeners, update_callback)
    /\ UNCHANGED coordinator

InitListeners == InitCoordinator({<<>>})

\* The coordinator with callbacks registered and removed at any time, and
\* with connection attempts that fail or wait until they are cancelled.
NextListeners ==
    \/ \E c \in Callbacks : register_listener(c)
    \/ \E c \in Callbacks : remove_listener(c)
    \/ async_start
    \/ async_stop
    \/ StopAfterTask
    \/ StopAfterUpdate
    \/ \E t \in TaskIds : RunLoop(t)
    \/ \E t \in TaskIds : RunOpenConnection(t)
    \/ \E t \in TaskIds : RunCancelled(t)
    \/ \E p \in TaskIds : PeriodicStart(p)
    \/ \E p \in TaskIds : PeriodicTick(p)
    \/ \E p \in TaskIds : PeriodicCancelled(p)

SpecListeners == InitListeners /\ [][NextListeners]_vars

----------------------------------------------------------------------------
(* What the claims speak of, said without the decoder *)

\* The payload length a marker at offset i (0-based) declares: the 10
\* low-order bits of the 16-bit field in the two bytes after it.
DeclaredLength(b, i) == (b[i + 2] * 256 + b[i + 3]) % 1024

\* b holds a complete frame at offset i: a marker with at least
\* declared length + 6 bytes from it.
HasFrameAt(b, i) ==
    /\ i + 6 <= Len(b)
    /\ b[i + 1] = Marker
    /\ Len(b) - i >= DeclaredLength(b, i) + 6

NoCompleteFrame(b) == \A i \in 0..(Len(b) - 1) : ~HasFrameAt(b, i)

\* Bit k (0-based, most significant first) of a byte string, and the 5-bit
\* field that starts offset bits into it.
BitAt(bytes, k) == (bytes[(k \div 8) + 1] \div Pow2(7 - (k % 8))) % 2
FieldAt(bytes, offset) ==
    16 * BitAt(bytes, offset) + 8 * BitAt(bytes, offset + 1) + 4 * BitAt(bytes, offset + 2)
        + 2 * BitAt(bytes, offset + 3) + BitAt(bytes, offset + 4)

\* The number of set bits of a byte, and of frame bytes 11..18 of F.
OnesInByte(b) ==
    (b % 2) + ((b \div 2) % 2) + ((b \div 4) % 2) + ((b \div 8) % 2) + ((b \div 16) % 2)
        + ((b \div 32) % 2) + ((b \div 64) % 2) + ((b \div 128) % 2)
MaskOnes(F) ==
    OnesInByte(F[12]) + OnesInByte(F[13]) + OnesInByte(F[14]) + OnesInByte(F[15])
        + OnesInByte(F[16]) + OnesInByte(F[17]) + OnesInByte(F[18]) + OnesInByte(F[19])

\* A count as the extractors report it: 0 is absent.
Opt(v) == IF v = 0 THEN None ELSE Some(v)

\* The payload of a frame: what lies between the 3 header and the 3
\* checksum bytes.
Payload(F) == SubSeq(F, 4, Len(F) - 3)

\* The ID ranges of the two observation formats.
LegacyGpsIds == 1001..1004
LegacyGlonassIds == 1009..1012
MsmIds == (1074..1077) \cup (1084..1087) \cup (1094..1097) \cup (1114..1117) \cup (1124..1127)

\* Under SpecFrame, once the stream is decoded: its first frame.
FirstFrame == SubSeq(callIn, 1, DeclaredLength(callIn, 0) + 6)

\* The well-formed frames of the test inputs.
ValidFrames == {FrameEmpty, Frame1005, Frame1005Reserved, Frame1003, Frame1077}

----------------------------------------------------------------------------
(* Claims on the decoder, under SpecDecoder *)

\* C1: buffer-boundary independence.  However the bytes delivered so far
\* were cut into chunks, the messages of the calls, concatenated in call
\* order, are the messages of one call on all those bytes.
C1_BoundaryIndependence ==
    out = _process_buffer(SubSeq(stream, 1, fed)).messages

\* C1 witness: the whole of a two-frame stream has been fed and the frame
\* the last call returned straddles a chunk boundary.
C1_Witness ==
    /\ fed = Len(stream)
    /\ Len(out) = 2
    /\ Len(callMsgs) = 1
    /\ callStarts[1] < callCarry
    /\ callCarry < callStarts[1] + callMsgs[1].length + 6

\* C2 as claimed: 0x00 0x00 0xD3 followed by a valid frame F decodes to the
\* single message of F alone.
C2_Original ==
    \A F \in ValidFrames :
        callIn = <<0, 0, Marker>> \o F =>
            /\ Len(callMsgs) = 1
            /\ callMsgs = _process_buffer(F).messages

\* C2 amended: 0x00 0x00 followed by a valid frame F (whose first byte is
\* the marker 0xD3) decodes to the single message of F alone.
C2_MarkerTrimming ==
    \A F \in ValidFrames :
        callIn = <<0, 0>> \o F =>
            /\ Len(callMsgs) = 1
            /\ callMsgs = _process_buffer(F).messages
            /\ callMsgs[1].length = Len(F) - 6

\* C2 witness: the call's input was 0x00 0x00 and the 1077 frame, and the
\* call returned that frame's message.
C2_Witness ==
    /\ callIn = <<0, 0>> \o Frame1077
    /\ Len(callMsgs) = 1
    /\ callMsgs[1].id = 1077

\* C3: incomplete-frame retention.  A call whose buffer begins with the
\* marker and holds fewer than declared length + 6 bytes returns no message
\* and the input itself as the remaining buffer.
C3_IncompleteRetained ==
    (/\ callIn # <<>>
     /\ callIn[1] = Marker
     /\ (Len(callIn) < 6 \/ Len(callIn) < DeclaredLength(callIn, 0) + 6))
    => (callMsgs = <<>> /\ buffer = callIn)

\* C3 witness: 18 bytes of a frame that declares length 20 were decoded.
C3_Witness ==
    /\ lastOp = "feed"
    /\ callIn = Partial18
    /\ Len(callIn) = 18
    /\ DeclaredLength(callIn, 0) = 20
    /\ buffer = Partial18

\* C4: idempotence without new data.  When a buffer b with no complete frame
\* was decoded and the remaining buffer was decoded again, the second call
\* returned the same remaining buffer and no message.
C4_Idempotent ==
    (lastOp = "again" /\ NoCompleteFrame(prevIn))
    => (buffer = callIn /\ callMsgs = <<>>)

\* C4 witness: a repeated call after a call on a non-empty buffer with no
\* complete frame, which begins with garbage and holds a marker.
C4_Witness ==
    /\ lastOp = "again"
    /\ NoCompleteFrame(prevIn)
    /\ Len(prevIn) >= 6
    /\ prevIn[1] # Marker
    /\ buffer # <<>>

\* C5: frame materialization.  Every message a call returns comes from an
\* offset of the call's buffer that holds the marker and has at least
\* declared length + 6 bytes after it; the frames are in buffer order and
\* do not overlap.
C5_Materialized ==
    /\ Len(callStarts) = Len(callMsgs)
    /\ \A k \in 1..Len(callMsgs) :
          /\ HasFrameAt(callIn, callStarts[k])
          /\ callMsgs[k].length = DeclaredLength(callIn, callStarts[k])
          /\ k < Len(callMsgs) =>
                callStarts[k] + callMsgs[k].length + 6 <= callStarts[k + 1]

\* C5 witness: one call returned two frames, the first after some garbage.
C5_Witness ==
    /\ Len(callMsgs) = 2
    /\ callStarts[1] > 0
    /\ callStarts[2] > callStarts[1]

----------------------------------------------------------------------------
(* Claims on the extractors, under SpecFrame *)

C6_WitnessGlonass ==
    /\ lastOp = "feed"
    /\ callMsgs[1].id = 1012
    /\ callMsgs[1].satellites = Some(5)

\* C7 as claimed: for a complete frame with an MSM ID, satellite_count is
\* the number of set bits of frame bytes 11..18, absent exactly when that
\* number is 0 or the frame is too short to contain those bytes (19 bytes
\* contain them).
C7_Original ==
    lastOp = "feed" =>
        LET F == FirstFrame
            msg == callMsgs[1]
        IN  msg.id \in MsmIds =>
                msg.satellites = IF Len(F) < 19 THEN None ELSE Opt(MaskOnes(F))

\* C7 amended: as claimed, but absent exactly when that number is 0 or the
\* frame is shorter than 20 bytes (a payload shorter than 14 bytes).
C7_MsmCount ==
    lastOp = "feed" =>
        LET F == FirstFrame
            msg == callMsgs[1]
        IN  msg.id \in MsmIds =>
                msg.satellites = IF Len(F) < 20 THEN None ELSE Opt(MaskOnes(F))

\* C7 witness: a 1077 frame whose mask has 7 set bits was decoded to 7.
C7_Witness ==
    /\ lastOp = "feed"
    /\ FirstFrame = Frame1077
    /\ MaskOnes(FirstFrame) = 7
    /\ callMsgs[1].id = 1077
    /\ callMsgs[1].satellites = Some(7)

\* C8: extractor totality.  Every satellite count returned is absent or an
\* integer; a frame, however short, does not stop the decoding of the frame
\* that follows it in the same buffer; and a count is present only for an
\* ID in the legacy or MSM ranges.
C8_ExtractorsTotal ==
    lastOp = "feed" =>
        LET followed == Len(callIn) > Len(FirstFrame)
        IN  /\ \A k \in 1..Len(callMsgs) :
                  \/ callMsgs[k].satellites = None
                  \/ /\ Len(callMsgs[k].satellites) = 1
                     /\ callMsgs[k].satellites[1] \in 1..64
            /\ Len(callMsgs) = IF followed THEN 2 ELSE 1
            /\ callMsgs[1].length = Len(FirstFrame) - 6
            /\ followed =>
                  callMsgs[2] = [id |-> 1077, length |-> 14, satellites |-> Some(7)]
            /\ \A k \in 1..Len(callMsgs) :
                  callMsgs[k].satellites # None =>
                      callMsgs[k].id \in LegacyGpsIds \cup LegacyGlonassIds \cup MsmIds

\* C8 witness: an MSM frame too short to hold a mask decoded to absent and
\* the frame after it was decoded.
C8_Witness ==
    /\ lastOp = "feed"
    /\ Len(callMsgs) = 2
    /\ callMsgs[1].id = 1077
    /\ callMsgs[1].length = 0
    /\ callMsgs[1].satellites = None
    /\ callMsgs[2].satellites = Some(7)

----------------------------------------------------------------------------
(* Claims on the transport session, under Spec *)

\* The handshake was accepted: the session is in its read loop, or left it
\* by a read that timed out or returned nothing.
Streaming == pc \in {"yielding", "reading"}
StreamEnded ==
    /\ pc = "failed"
    /\ \/ error.type = "TimeoutError"
       \/ error.text = "Stream closed by server"

\* The bytes of the first read that follow the end-of-headers marker (the
\* first \r\n\r\n, or the first \n\n when there is no \r\n\r\n); all of the
\* first read when it holds no marker.
AfterHeaders(data) ==
    IF \E i \in 0..Len(data) : OccursAt(data, CrLfCrLf, i)
    THEN LET i == CHOOSE i \in 0..Len(data) :
                      /\ OccursAt(data, CrLfCrLf, i)
                      /\ \A j \in 0..Len(data) : OccursAt(data, CrLfCrLf, j) => i <= j
         IN  SubSeq(data, i + 5, Len(data))
    ELSE IF \E i \in 0..Len(data) : OccursAt(data, LfLf, i)
    THEN LET i == CHOOSE i \in 0..Len(data) :
                      /\ OccursAt(data, LfLf, i)
                      /\ \A j \in 0..Len(data) : OccursAt(data, LfLf, j) => i <= j
         IN  SubSeq(data, i + 3, Len(data))
    ELSE data

\* Everything received after the headers: the rest of the first read and
\* all later reads.
StreamBytes == AfterHeaders(initial_data) \o SubSeq(stream, Len(initial_data) + 1, fed)

\* "HTTP/1.0 401 Unauthorized"
Line401 ==
    <<72, 84, 84, 80, 47, 49, 46, 48, 32, 52, 48, 49, 32, 85, 110, 97, 117, 116,
      104, 111, 114, 105, 122, 101, 100>>

\* The first response line as it is on the wire: the bytes of the first read
\* before its first line feed, all of them when it holds none.
RawFirstLine(data) ==
    LET feeds == {i \in 1..Len(data) : data[i] = 10}
    IN  IF feeds = {} THEN data
        ELSE SubSeq(data, 1, (CHOOSE i \in feeds : \A j \in feeds : i <= j) - 1)

\* The line is ASCII text, and the three characters 2 0 0 occur in it.
IsAscii(line) == \A i \in 1..Len(line) : line[i] < 128
Has200(line) ==
    \E i \in 1..(Len(line) - 2) : line[i] = 50 /\ line[i + 1] = 48 /\ line[i + 2] = 48

C10_StreamEquivalence ==
    (Streaming \/ StreamEnded) =>
        LET expected == _process_buffer(StreamBytes).messages
        IN  /\ out \o pending = expected
            /\ pc = "reading" => (out = expected /\ error = NoError)
            /\ pc = "failed" => out = expected
            /\ (pc = "reading" /\ stream = HeadIcy \o Frame1077 /\ fed = Len(stream))
                   => out = <<[id |-> 1077, length |-> 14, satellites |-> Some(7)]>>

\* C10 witness: "ICY 200 OK", a blank line and one 1077 frame were received,
\* the frame's message was yielded and the session waits for more data.
C10_Witness ==
    /\ stream = HeadIcy \o Frame1077
    /\ fed = Len(stream)
    /\ pc = "reading"
    /\ error = NoError
    /\ out = <<[id |-> 1077, length |-> 14, satellites |-> Some(7)]>>

\* C10, a second case reached: two frames yielded in order, the second
\* completed by a later read, before the peer closed the stream.
C10_WitnessSplit ==
    /\ stream = HeadLf \o Frame1077 \o <<0>> \o Frame1005
    /\ Len(initial_data) = Len(HeadLf) + 23
    /\ StreamEnded
    /\ Len(out) = 2
    /\ out[1].id = 1077
    /\ out[2].id = 1005

----------------------------------------------------------------------------
(* Claims on the coordinator, under SpecSupervisor *)

\* The text of error_message, "" when it is None.
ErrorMessageText == IF status.error_message = None THEN "" ELSE status.error_message[1].text

\* The session was ended by an exception of its own, which is being or was
\* propagated.
SessionOver == pc \in {"closing", "failed"}
IdleTimeout == SessionOver /\ error.type = "TimeoutError"
PeerClosed == SessionOver /\ error.text = "Stream closed by server"

\* C11: streaming failure signals.  A timeout and a peer close end a
\* session only in its read loop, after an accepted handshake; they are
\* different exceptions, and once the coordinator has caught them it shows
\* "Connection timeout" for the one and "Stream closed by server" for the
\* other, disconnected; and while a session is over no message is yielded
\* or counted.
C11_FailureSignals ==
    /\ [](/\ (IdleTimeout \/ PeerClosed) => HandshakeAccepted(initial_data)
          /\ ~(IdleTimeout /\ PeerClosed)
          /\ (IdleTimeout /\ pc = "failed") =>
                (ErrorMessageText = "Connection timeout" /\ ~status.connected)
          /\ (PeerClosed /\ pc = "failed") =>
                (ErrorMessageText = "Stream closed by server" /\ ~status.connected))
    /\ [][(SessionOver /\ pc' # "start") =>
              (out' = out /\ status'.message_count = status.message_count)]_vars

\* C11 witness: a session that had yielded a message ended by a read
\* timeout, and the coordinator shows "Connection timeout".
C11_Witness ==
    /\ IdleTimeout
    /\ pc = "failed"
    /\ out # <<>>
    /\ ErrorMessageText = "Connection timeout"

\* C11, the other case reached: the peer closed a session that had yielded.
C11_WitnessClosed ==
    /\ PeerClosed
    /\ pc = "failed"
    /\ out # <<>>
    /\ ErrorMessageText = "Stream closed by server"

\* C12: connection release.  The writer of a session is closed at most once,
\* and not at all when the connection was never opened; a session that has
\* terminated holds no open connection; every connection opened so far is
\* either released, or held by the running session, or held by a session
\* the consumer abandoned and the event loop has yet to finalize, so that
\* once every session has terminated each connection opened was released
\* exactly once.
C12_ReleasedOnce ==
    /\ closes <= 1
    /\ writer = "none" => closes = 0
    /\ writer = "closed" => closes = 1
    /\ writer = "open" => (closes = 0 /\ pc \in {"opened", "sent", "reading"})
    /\ pc \in {"closing", "failed"} => writer # "open"
    /\ opened = released + abandoned + (IF writer = "open" THEN 1 ELSE 0)

\* C12 witness: the loop task was cancelled while the session was reading,
\* and the session's connection was released once.
C12_Witness ==
    /\ pc = "failed"
    /\ error = CancelledError
    /\ initial_data # <<>>
    /\ writer = "closed"
    /\ closes = 1
    /\ opened = released

\* C12, another path reached: the consumer left the session at a yield
\* after a stop request, and the event loop released the connection later.
C12_WitnessAbandoned ==
    /\ stop_event
    /\ abandoned = 0
    /\ pc = "none"
    /\ attempts = 1
    /\ opened = 1
    /\ released = 1

\* The session ended by a failure that _run has caught.
FailureHandled == pc = "failed" /\ error # CancelledError

\* C13: the supervisor never gives up.  Whatever failure ended a session
\* (refused connection, rejected, empty or timed-out handshake, idle
\* timeout, peer close, transport error), once _run has caught it the
\* status shows it (disconnected, with an error text) and, unless a stop
\* was requested, the loop task is alive in its backoff sleep (or is a loop
\* task started since, yet to run); the loop task is done only after
\* async_stop was called, and no task
\* ends by an exception that a caller of async_stop would receive.
C13_NeverGivesUp ==
    /\ FailureHandled => (~status.connected /\ status.error_message # None)
    /\ (FailureHandled /\ ~stopping) =>
          (Running(task) /\ tasks[task].at \in {"sleep", "new"})
    /\ (task # 0 /\ ~Running(task)) => stopping
    /\ \A t \in 1..Len(tasks) : tasks[t].result \in {"pending", "returned", "cancelled"}

\* C13 witness: a transport error ended the first session, no stop was
\* requested, and the loop task went on to a second session.
C13_Witness ==
    /\ ~stopping
    /\ attempts = 2
    /\ Running(task)
    /\ pc = "reading"
    /\ notified >= 1

\* C13, the state in between: the failure is recorded and the loop sleeps.
C13_WitnessSleep ==
    /\ FailureHandled
    /\ error.type = "OSError"
    /\ ~stopping
    /\ Running(task)
    /\ tasks[task].at = "sleep"

\* C14: supervisor reconnect.  The step in which _run catches a failure of
\* a session (a peer close or any other) sets connected to false, sets the
\* error message and notifies the listeners once, and with no stop
\* requested leaves the loop task in its backoff sleep; a session is started
\* only by the loop task at the top of its loop, one per step, with no stop
\* requested and no other session of the loop live; and for a loop task
\* sleeping after the failure of a session the one step there is, when its
\* sleep ends, is the start of the next session.
C14_Reconnect ==
    /\ [][(pc # "failed" /\ pc' = "failed" /\ error' # CancelledError) =>
              /\ ~status'.connected
              /\ status'.error_message # None
              /\ notified' = notified + 1
              /\ ~stop_event => (Running(task)' /\ tasks'[task].at = "sleep")]_vars
    /\ [][attempts' # attempts =>
              /\ attempts' = attempts + 1
              /\ pc \in {"none", "failed"}
              /\ pc' = "start"
              /\ Running(task) /\ tasks[task].at \in {"new", "sleep"}
              /\ tasks'[task].at = "session"
              /\ ~stop_event /\ ~stopping]_vars
    /\ [](((FailureHandled /\ ~stopping /\ tasks[task].at = "sleep"
                /\ attempts < MaxAttempts)
             => (ENABLED RunLoop(task) /\ ~ENABLED RunCancelled(task))))

\* C14 witness: the peer closed the first session, the failure was recorded
\* and notified, and after the sleep one second session was started.
C14_Witness ==
    /\ attempts = 2
    /\ pc = "start"
    /\ ~stopping
    /\ ~status.connected
    /\ status.message_count > 0
    /\ notified >= 1

\* C14, the state in between: the peer close is recorded and the loop
\* task sleeps.
C14_WitnessSleep ==
    /\ FailureHandled
    /\ error.text = "Stream closed by server"
    /\ ErrorMessageText = "Stream closed by server"
    /\ ~status.connected
    /\ ~stopping
    /\ tasks[task].at = "sleep"
    /\ attempts = 1

\* C15: no retry after stop.  From the call of async_stop until an
\* async_start takes effect no step starts a session; a loop task that is
\* still alive then and is not inside a session has its cancellation
\* pending, and one that handles a failure then ends instead of sleeping.
C15_NoRetryAfterStop ==
    /\ [][stopping => attempts' = attempts]_vars
    /\ [][(stopping /\ pc # "failed" /\ pc' = "failed") => ~Running(task)']_vars
    /\ []((stopping /\ Running(task) /\ tasks[task].at \in {"new", "sleep"})
             => (tasks[task].must_cancel /\ ~ENABLED RunLoop(task)))

\* C15 witness: the stop came during the backoff sleep after a failure; the
\* loop task was cancelled there and async_stop returned with one session
\* started and another allowed by the bound.
C15_Witness ==
    /\ stopping
    /\ stopPc = "idle"
    /\ FailureHandled
    /\ tasks[task].result = "cancelled"
    /\ attempts = 1
    /\ attempts < MaxAttempts

\* C15, the stop while a session was streaming.
C15_WitnessStreaming ==
    /\ stopping
    /\ pc = "failed"
    /\ error = CancelledError
    /\ out # <<>>
    /\ ~Running(task)

\* C15, the stop while a failure was on its way to _run: the failure was
\* handled after the stop request and the loop ended without sleeping.
C15_WitnessHandling ==
    /\ stopping
    /\ FailureHandled
    /\ tasks[task].result = "returned"
    /\ attempts = 1

\* How many tasks of a kind are alive.
Alive(kind) == Cardinality({t \in 1..Len(tasks) : tasks[t].kind = kind /\ Running(t)})

\* C16: start is idempotent.  A call of async_start made while the loop
\* task is running creates no task, changes no status field and nothing
\* else of the coordinator; and after any number of calls of async_start
\* with no call of async_stop, exactly one loop task and one periodic task
\* exist and are running.
C16_StartIdempotent ==
    /\ [][(calls' = Append(calls, "start") /\ Running(task)) =>
              UNCHANGED <<tasks, task, update_task, status, stop_event, notified, stopping,
                          session, ghosts, now>>]_vars
    /\ []((calls # <<>> /\ \A i \in 1..Len(calls) : calls[i] = "start") =>
              /\ Len(tasks) = 2
              /\ Alive("run") = 1
              /\ Alive("periodic") = 1
              /\ Running(task) /\ Running(update_task))

\* C16 witness: async_start was called three times in a row while the
\* first loop task was inside a session; there are two tasks.
C16_Witness ==
    /\ calls = <<"start", "start", "start">>
    /\ Len(tasks) = 2
    /\ Running(task)
    /\ pc = "reading"
    /\ status.connected

\* The step in which a call of async_stop returns: at once when there was
\* nothing to wait for, or after the last task it awaited has ended.
StopReturns ==
    \/ stopPc # "idle" /\ stopPc' = "idle"
    \/ calls' = Append(calls, "stop") /\ stopPc' = "idle"

\* async_stop has returned and no async_start has taken effect since it was
\* called.
Stopped == stopping /\ stopPc = "idle"

\* C17: stop waits for quiescence.  When async_stop returns no task of the
\* supervisor is alive, neither a loop task nor a periodic task, none of
\* them is left in a connect, a read or a sleep, and from then until an
\* async_start takes effect no status field is written and no listener is
\* invoked.
C17_StopQuiescence ==
    /\ [][StopReturns => (\A t \in 1..Len(tasks) : ~Running(t))']_vars
    /\ [][Stopped => (status' = status /\ notified' = notified)]_vars

\* The step in which the loop body of _run processes the first message of
\* a session, and one in which it processes a later message of a session.
FirstMessage == out = <<>> /\ out' # <<>>
LaterMessage == out # <<>> /\ Len(out') > Len(out)

\* C18: connected on first message.  connected becomes true only in a step
\* that processes a message; the first message of every session, which
\* comes after a start or after a failure, leaves connected true and the
\* connection time equal to the time that message was processed at; later
\* messages of the session leave the connection time unchanged.
C18_ConnectedOnFirstMessage ==
    /\ [][(~status.connected /\ status.connected') =>
              status.message_count' > status.message_count]_vars
    /\ [][FirstMessage =>
              (status.connected' /\ status.connection_time' = Some(now + 1))]_vars
    /\ [][LaterMessage => status.connection_time' = status.connection_time]_vars

----------------------------------------------------------------------------
(* Claims on the status fields, under SpecStatus *)

\* The step in which the loop body of _run processes exactly one message,
\* and that message.
OneMessage == Len(out') = Len(out) + 1
TheMessage == out'[Len(out')]

NoDuplicates(list) == \A i, j \in 1..Len(list) : list[i] = list[j] => i = j

\* C19: bounded distinct-ID set.  In every state message_types holds no ID
\* twice and at most MAX_MESSAGE_TYPES IDs.  A message whose ID is in the
\* list leaves the list as it is; a message with a new ID is put at the end
\* of the list, and when the list was at the cap its oldest entry, the
\* first, is the one that leaves.
C19_BoundedTypes ==
    /\ [](NoDuplicates(status.message_types) /\ Len(status.message_types) <= MAX_MESSAGE_TYPES)
    /\ [][OneMessage =>
              LET types == status.message_types
                  id == TheMessage.id
              IN  IF \E i \in 1..Len(types) : types[i] = id
                  THEN status.message_types' = types
                  ELSE IF Len(types) = MAX_MESSAGE_TYPES
                  THEN status.message_types' = Tail(types) \o <<id>>
                  ELSE status.message_types' = types \o <<id>>]_vars

\* C19 witness: the list is at the cap and the ID of the first message of
\* the session, which was in the list, has left it for a newer one.
C19_Witness ==
    /\ Len(out) > MAX_MESSAGE_TYPES
    /\ Len(status.message_types) = MAX_MESSAGE_TYPES
    /\ \A i \in 1..Len(status.message_types) : status.message_types[i] # out[1].id
    /\ status.message_types[MAX_MESSAGE_TYPES] = out[Len(out)].id
    /\ status.message_count = Len(out)

\* C19 witness: a message whose ID was already in the list has been
\* processed.
C19_WitnessSeen ==
    /\ status.message_count > Len(status.message_types)
    /\ Len(status.message_types) < MAX_MESSAGE_TYPES

\* The constellation the coordinator counts an ID for, if any.
Constellation(id) ==
    CASE id \in (1001..1004) \cup (1074..1077) -> "gps"
      [] id \in (1009..1012) \cup (1084..1087) -> "glonass"
      [] id \in 1094..1097 -> "galileo"
      [] id \in 1124..1127 -> "beidou"
      [] OTHER -> "none"

\* The four per-constellation counts of a status.
Counts(st) ==
    [gps |-> st.gps_satellites, glonass |-> st.glonass_satellites,
     galileo |-> st.galileo_satellites, beidou |-> st.beidou_satellites]

\* The counts after one message, and after the messages of one read.
CountsStep(counts, msg_info) ==
    LET k == Constellation(msg_info.id)
        c == msg_info.satellites
    IN  IF c # None /\ k # "none" THEN [counts EXCEPT ![k] = c[1]] ELSE counts

RECURSIVE CountsAfter(_, _)
CountsAfter(counts, messages) ==
    IF messages = <<>> THEN counts
    ELSE CountsAfter(CountsStep(counts, Head(messages)), Tail(messages))

\* C20: constellation mapping.  A message that carries a satellite count
\* and whose ID is in a range of GPS, GLONASS, Galileo or BeiDou sets the
\* count of that constellation to the count it carries and leaves the three
\* others as they were; a message without a count, or whose ID is in none
\* of these ranges (the MSM window 1114-1117 among them), leaves the four
\* counts unchanged; and the total is in every state the sum of the four
\* counts, so it changes only with them.
C20_ConstellationMapping ==
    /\ [](LET counts == Counts(status)
          IN  status.total_satellites =
                  counts.gps + counts.glonass + counts.galileo + counts.beidou)
    /\ [][Len(out') > Len(out) =>
              Counts(status') =
                  CountsAfter(Counts(status), SubSeq(out', Len(out) + 1, Len(out')))]_vars
    /\ [][Len(out') <= Len(out) => Counts(status') = Counts(status)]_vars

\* C20 witness: a legacy GPS message with 9 satellites and later an MSM GPS
\* message with 7 were processed while the GLONASS count was 5; the GPS
\* count is 7 and the total 12.
C20_Witness ==
    /\ Len(out) >= 3
    /\ out[Len(out)].id = 1077 /\ out[Len(out)].satellites = Some(7)
    /\ \E i \in 1..Len(out) : out[i].id = 1003 /\ out[i].satellites = Some(9)
    /\ Counts(status) = [gps |-> 7, glonass |-> 5, galileo |-> 0, beidou |-> 0]
    /\ status.total_satellites = 12

\* C20 witness: a 1117 message with a count of 4 was processed and no count
\* is 4.
C20_WitnessQzss ==
    /\ out # <<>>
    /\ out[Len(out)].id = 1117 /\ out[Len(out)].satellites = Some(4)
    /\ status.last_message_type = Some(1117)
    /\ status.total_satellites > 0
    /\ \A k \in DOMAIN Counts(status) : Counts(status)[k] # 4

\* C20 witness: a message of a counted range with an empty mask, so with no
\* count, was processed and the GPS count is still that of an older message.
C20_WitnessNoCount ==
    /\ out # <<>>
    /\ out[Len(out)].id = 1074 /\ out[Len(out)].satellites = None
    /\ status.last_message_type = Some(1074)
    /\ status.gps_satellites = 7

\* C21: the total is the sum.  In every state, so in every state a
\* listener is invoked in or a reader looks at between two steps of the
\* loop task, total_satellites is the sum of the four per-constellation
\* counts.
C21_TotalIsSum ==
    status.total_satellites =
        status.gps_satellites + status.glonass_satellites
            + status.galileo_satellites + status.beidou_satellites

\* C21 witness: the listeners were notified of a failure while counts of
\* three constellations were recorded, one of them overwritten before.
C21_Witness ==
    /\ notified > 0
    /\ pc = "failed"
    /\ status.gps_satellites = 7
    /\ status.glonass_satellites = 2
    /\ status.galileo_satellites = 8
    /\ status.total_satellites = 17

----------------------------------------------------------------------------
(* Further claims on the coordinator, under SpecSupervisor *)

\* C22: disconnected shows the last error.  Every state is one the
\* listeners can be invoked in.  Once a message has been processed, a
\* connected that is false was made so by a failure recorded after it, and
\* the error text is then not blank; and an error text that is shown stays
\* shown, with connected false, over every step that processes no message,
\* the start of the following connection attempt among them.
C22_DisconnectedShowsError ==
    /\ []((~status.connected /\ status.message_count > 0) => status.error_message # None)
    /\ [][(status.error_message # None /\ status.message_count' = status.message_count) =>
              (~status.connected' /\ status.error_message' # None)]_vars

----------------------------------------------------------------------------
(* Further claims on the decoder, under SpecDecoder and SpecFrame *)

\* No byte of b is the marker.
NoMarker(b) == \A i \in 1..Len(b) : b[i] # Marker

\* C23: leading-garbage discard.  Whenever the input of a call is G
\* followed by B with no marker in G, the call returns the messages and the
\* remaining buffer that a call on B alone returns; and a call on an input
\* with no marker at all returns no message and an empty remaining buffer.
C23_GarbageDiscard ==
    /\ \A n \in 0..Len(callIn) :
           NoMarker(SubSeq(callIn, 1, n)) =>
               LET r == _process_buffer(SubSeq(callIn, n + 1, Len(callIn)))
               IN  callMsgs = r.messages /\ buffer = r.remaining
    /\ NoMarker(callIn) => (callMsgs = <<>> /\ buffer = <<>>)

\* C23 witness: two garbage bytes, the 1077 frame and 18 bytes of a longer
\* frame were decoded in one call: one message, the 18 bytes remain.
C23_Witness ==
    /\ callIn = <<0, 0>> \o Frame1077 \o Partial18
    /\ Len(callMsgs) = 1
    /\ callMsgs[1].id = 1077
    /\ buffer = Partial18

\* C23 witness: a call on four bytes none of which is the marker.
C23_WitnessNoMarker ==
    /\ lastOp = "feed"
    /\ Len(callIn) = 4
    /\ NoMarker(callIn)
    /\ callIn[2] = 1
    /\ buffer = <<>>
    /\ callMsgs = <<>>

\* The number of bytes before the first marker of b (all of b if none).
RECURSIVE LeadingGarbage(_)
LeadingGarbage(b) ==
    IF b = <<>> \/ b[1] = Marker THEN 0 ELSE 1 + LeadingGarbage(Tail(b))

\* The 12 bits after the 3-byte header of the frame at offset i: byte 3 as
\* the high 8 bits, the top nibble of byte 4 as the low 4.
DeclaredId(b, i) == b[i + 4] * 16 + (b[i + 5] \div 16)

IsSuffix(x, y) == Len(x) <= Len(y) /\ x = SubSeq(y, Len(y) - Len(x) + 1, Len(y))

\* C24: header field extraction.  Every message of a call reports as its
\* length the 10 low-order bits of frame bytes 1-2, in 0..1023, and as its
\* ID the 12 bits after the header, in 0..4095.  When the first marker of
\* the input starts a complete frame, the call returns that frame's
\* message first and then what a call on the bytes from length + 6 past
\* the marker returns, and the remaining buffer is an end of those bytes.
C24_HeaderFields ==
    /\ \A k \in 1..Len(callMsgs) :
           /\ callMsgs[k].length = DeclaredLength(callIn, callStarts[k])
           /\ callMsgs[k].id = DeclaredId(callIn, callStarts[k])
           /\ callMsgs[k].length \in 0..1023
           /\ callMsgs[k].id \in 0..4095
    /\ LET g == LeadingGarbage(callIn)
       IN  HasFrameAt(callIn, g) =>
               LET rest == SubSeq(callIn, g + DeclaredLength(callIn, g) + 7, Len(callIn))
               IN  /\ callMsgs # <<>>
                   /\ callStarts[1] = g
                   /\ Tail(callMsgs) = _process_buffer(rest).messages
                   /\ IsSuffix(buffer, rest)

\* C24 witness: two garbage bytes, a 1005 frame with all six reserved bits
\* set and the 1077 frame were decoded in one call.
C24_Witness ==
    /\ callIn = <<0, 0>> \o Frame1005Reserved \o Frame1077
    /\ callIn[4] = 252
    /\ Len(callMsgs) = 2
    /\ callMsgs[1] = [id |-> 1005, length |-> 2, satellites |-> None]
    /\ callMsgs[2].id = 1077 /\ callMsgs[2].length = 14
    /\ callStarts = <<2, 10>>
    /\ buffer = <<>>

\* C24 witness: a frame whose byte 4 has a low nibble that is not zero.
C24_WitnessNibble ==
    /\ callIn = <<Marker, 0, 0, 1, 1, Marker>>
    /\ callMsgs = <<[id |-> 16, length |-> 0, satellites |-> None]>>

----------------------------------------------------------------------------
(* Further claims on the transport session, under Spec *)

\* The handshake was accepted and no later read has returned yet.
JustSeeded == Streaming /\ fed = Len(initial_data)

\* C25: accumulator seeding.  After an accepted handshake and before any
\* later read, what was yielded, what is about to be yielded and the
\* accumulator are the decoding of exactly the bytes of the initial read
\* after the end-of-headers marker (the first \r\n\r\n, else the first
\* \n\n), and of the entire initial read when it holds neither marker.
C25_Seeding ==
    JustSeeded =>
        LET seed == AfterHeaders(initial_data)
            r == _process_buffer(seed)
        IN  /\ out \o pending = r.messages
            /\ buffer = r.remaining
            /\ (\A i \in 0..Len(initial_data) :
                    ~OccursAt(initial_data, CrLfCrLf, i) /\ ~OccursAt(initial_data, LfLf, i))
                   => seed = initial_data

\* C25 witness: the initial read held \n\n, a frame, \r\n\r\n and the
\* 1077 frame; the accumulator was seeded after the \r\n\r\n, so the 1077
\* message is the only one.
C25_Witness ==
    /\ initial_data = HeadBoth \o Frame1077
    /\ JustSeeded
    /\ out \o pending = <<[id |-> 1077, length |-> 14, satellites |-> Some(7)]>>
    /\ buffer = <<>>

\* C25 witness: the initial read held "ICY 200 OK", one line end and the
\* 1077 frame, so neither marker; all of it seeded the accumulator.
C25_WitnessNoMarker ==
    /\ initial_data = HeadNoBlank \o Frame1077
    /\ JustSeeded
    /\ AfterHeaders(initial_data) = initial_data
    /\ out \o pending = <<[id |-> 1077, length |-> 14, satellites |-> Some(7)]>>

\* C25 witness: the initial read ended inside a frame that follows a bare
\* blank line; the bytes of the frame received so far are the accumulator.
C25_WitnessPartial ==
    /\ stream = HeadLf \o Frame1077
    /\ Len(initial_data) = Len(HeadLf) + 5
    /\ JustSeeded
    /\ buffer = SubSeq(Frame1077, 1, 5)
    /\ out = <<>> /\ pending = <<>>

\* The texts of the three setup failures that are not a refusal.
SetupFailureTexts ==
    { "Failed to connect", "Server closed connection without sending response",
      "Timeout waiting for HTTP response (10s)" }

\* C26: setup failures are final for the session.  The connection is
\* opened only by the first step of the session and the request is sent
\* only by the step after it, before any byte is read, and neither is ever
\* done again; a failure to connect, an empty initial read and a handshake
\* read timeout end the session with a ConnectionError before any message
\* is yielded; and a session that has failed takes no further step.
C26_SetupFinal ==
    /\ [][pc' = "opened" => pc = "start"]_vars
    /\ [][pc' = "sent" => pc = "opened"]_vars
    /\ [][pc' # "start"]_vars
    /\ [][pc = "failed" => UNCHANGED vars]_vars
    /\ [](pc \in {"start", "opened", "sent"} =>
              (fed = 0 /\ initial_data = <<>> /\ out = <<>> /\ pending = <<>>))
    /\ []((pc = "failed" /\ error.text \in SetupFailureTexts) =>
              /\ error.type = "ConnectionError"
              /\ fed = 0 /\ out = <<>> /\ pending = <<>> /\ buffer = <<>>
              /\ closes = (IF error.text = "Failed to connect" THEN 0 ELSE 1))
    /\ [][(pc = "start" /\ pc' # "opened") =>
              (pc' = "failed" /\ error.text' = "Failed to connect")]_vars
    /\ [][(pc = "sent" /\ fed' = fed) =>
              (pc' = "failed" /\ error.text' \in SetupFailureTexts)]_vars

\* C26 witness: the peer closed the connection without a response.
C26_Witness ==
    /\ pc = "failed"
    /\ error.text = "Server closed connection without sending response"
    /\ stream # <<>>
    /\ writer = "closed"
    /\ out = <<>>

\* C26 witnesses: the connection could not be opened; the handshake read
\* timed out.
C26_WitnessConnect ==
    /\ pc = "failed"
    /\ error.text = "Failed to connect"
    /\ writer = "none"
    /\ stream = HeadIcy \o Frame1077

C26_WitnessTimeout ==
    /\ pc = "failed"
    /\ error.text = "Timeout waiting for HTTP response (10s)"
    /\ closes = 1
    /\ stream = HeadIcy \o Frame1077

----------------------------------------------------------------------------
(* Claims on the counters and the accumulator, under SpecSupervisor *)

\* C27: cumulative message count.  A step in which the loop body processes
\* n messages adds n to message_count, and no other step changes it: not
\* the recording of a failure, the start of a session, a call of
\* async_start or async_stop, or a cancellation.  The clock of the model
\* ticks once for every message processed since the coordinator was
\* constructed, so message_count is that number of messages.
C27_CumulativeCount ==
    /\ [][Len(out') > Len(out) =>
              status.message_count' = status.message_count + Len(out') - Len(out)]_vars
    /\ [][Len(out') <= Len(out) => status.message_count' = status.message_count]_vars
    /\ [](status.message_count = now)

\* C27 witness: two messages in a session that failed, one more in the
\* session after it.
C27_Witness ==
    /\ status.message_count = 3
    /\ attempts = 2
    /\ Len(out) = 1
    /\ notified > 0
    /\ calls = <<"start">>

\* C27 witness: a message before a stop and one after the start that
\* followed it.
C27_WitnessStop ==
    /\ status.message_count = 2
    /\ Len(out) = 1
    /\ calls = <<"start", "stop", "start">>
    /\ stopPc = "idle"
    /\ Len(tasks) = 4

\* The concatenation of a sequence of byte strings.
RECURSIVE Concat(_)
Concat(reads) == IF reads = <<>> THEN <<>> ELSE Head(reads) \o Concat(Tail(reads))

\* The bytes a session has received after the headers, when the peer's
\* response is s and the reads still to come are rest.
SessionBytes(s, rest) ==
    AfterHeaders(s[1]) \o Concat(SubSeq(s, 2, Len(s) - Len(rest)))

\* C28: the accumulator is per session.  A connection attempt has an empty
\* accumulator and nothing yielded until its own initial read; and what a
\* session has yielded is the decoding of the bytes after the headers of
\* its own initial read followed by its own later reads, whatever an
\* earlier session left undecoded.
C28_PerSession ==
    /\ [](pc \in {"start", "opened", "sent"} => (buffer = <<>> /\ out = <<>>))
    /\ []((pc \in {"reading", "closing", "failed"} /\ initial_data # <<>>) =>
              \E s \in peer :
                  /\ s[1] = initial_data
                  /\ IsSuffix(script, s) /\ Len(script) < Len(s)
                  /\ out = _process_buffer(SessionBytes(s, script)).messages)

\* C28 witness: the session before left 8 bytes of a 1003 frame undecoded
\* and failed; this one received the 6 bytes that would end that frame and
\* a 1005 frame, and yielded the 1005 message alone.
C28_Witness ==
    /\ attempts = 2
    /\ pc = "reading"
    /\ initial_data = ResponseTail[1]
    /\ out = <<[id |-> 1005, length |-> 2, satellites |-> None]>>
    /\ buffer = <<>>
    /\ status.message_types = <<1077, 1005>>
    /\ status.message_count = 2

\* C28 witness: a session has failed with 8 bytes of a frame undecoded.
C28_WitnessCutShort ==
    /\ attempts = 1
    /\ pc = "failed"
    /\ buffer = SubSeq(Frame1003, 1, 8)
    /\ Len(out) = 1

----------------------------------------------------------------------------
(* Claims on the listeners, under SpecListeners *)

\* C29: listeners cleared at teardown.  When a call of async_stop returns
\* the list of listeners is empty, so that no callback registered before
\* the stop is left for a later notification pass to invoke.
C29_ListenersCleared == [][StopReturns => _listeners' = <<>>]_vars

\* A step that is one notification pass.
NotificationPass == notified' = notified + 1

\* C30: listener fan-out.  A notification pass invokes the callbacks that
\* are registered at its start, each registration once, in registration
\* order, whatever the callbacks do to the list during the pass; so a
\* callback that is not registered at the start of a pass is not invoked
\* by it.
C30_FanOut ==
    /\ [][NotificationPass => invoked' = _listeners]_vars
    /\ [][NotificationPass =>
              \A c \in Callbacks : ~InSeq(c, _listeners) => ~InSeq(c, invoked')]_vars

----------------------------------------------------------------------------
(* The remaining buffer, under SpecDecoder *)

\* The bytes the frames of the last call take up: length + 6 for each.
RECURSIVE FrameBytes(_)
FrameBytes(messages) ==
    IF messages = <<>> THEN 0
    ELSE Head(messages).length + 6 + FrameBytes(Tail(messages))

\* b, of 3 bytes or more, begins with the marker of a frame that b does
\* not hold whole.
IncompleteFrame(b) ==
    /\ Len(b) >= 3
    /\ b[1] = Marker
    /\ Len(b) < DeclaredLength(b, 0) + 6

\* C31: remaining-buffer postcondition.  Every call of _process_buffer
\* returns, and its remaining buffer is an end of the input that is either
\* shorter than 6 bytes or begins with the marker and holds fewer bytes
\* than that marker's declared length + 6; the frames returned and the
\* remaining buffer together take up no more bytes than the input has.
C31_RemainingBuffer ==
    /\ IsSuffix(buffer, callIn)
    /\ Len(buffer) < 6 \/ IncompleteFrame(buffer)
    /\ FrameBytes(callMsgs) + Len(buffer) <= Len(callIn)

\* C31 witness: a call returned a frame and kept the 18 bytes of a frame
\* that declares 20, which follow it.
C31_Witness ==
    /\ lastOp = "feed"
    /\ callIn = <<0, 0>> \o Frame1005 \o Partial18
    /\ Len(callMsgs) = 1
    /\ buffer = Partial18
    /\ Len(buffer) >= 6
    /\ FrameBytes(callMsgs) + Len(buffer) = Len(callIn) - 2

\* C31 witness: a call returned a frame and kept fewer than 6 bytes that
\* begin with no marker.
C31_WitnessShort ==
    /\ lastOp = "feed"
    /\ callIn = Frame1005 \o <<0>>
    /\ Len(callMsgs) = 1
    /\ buffer = <<0>>

\* C31 witness: a call on 6 bytes that begin with a marker declaring 256
\* bytes returned no frame and kept all 6.
C31_WitnessRaw ==
    /\ lastOp = "feed"
    /\ callIn = <<Marker, 1, 0, 0, 0, 0>>
    /\ DeclaredLength(callIn, 0) = 256
    /\ callMsgs = <<>>
    /\ buffer = callIn

----------------------------------------------------------------------------
(* Interleaved calls of async_start and async_stop, under SpecSupervisor *)

\* The last call made was one of async_stop, and it has returned.
LastStopReturned ==
    /\ calls # <<>>
    /\ calls[Len(calls)] = "stop"
    /\ stopPc = "idle"

\* C32: single worker under interleaved start/stop.  Whatever the order
\* of the calls of async_start and async_stop, a start made while a stop
\* is suspended at an await included, at most one loop task and at most
\* one periodic task are alive at any time, and when the last stop called
\* has returned no task is alive.
C32_SingleWorker ==
    /\ Alive("run") <= 1
    /\ Alive("periodic") <= 1
    /\ LastStopReturned => \A t \in 1..Len(tasks) : ~Running(t)

----------------------------------------------------------------------------
(* A listener that raises, under SpecListeners *)

\* The step is a notification pass that the exception of a callback ended.
RaisingPass ==
    /\ NotificationPass
    /\ invoked' # <<>>
    /\ Raises(invoked'[Len(invoked')])

\* C33: a failing listener does not stop the supervisor.  A notification
\* pass in which a callback raises ends no task: with no stop requested,
\* the loop task that made the pass after a failure goes on to its backoff
\* sleep and the periodic task that made it goes on to its next sleep.
C33_FailingListener ==
    [][(RaisingPass /\ ~stop_event) =>
           \A t \in 1..Len(tasks) :
               Running(t) => (Running(t)' /\ (tasks'[t] # tasks[t] => tasks'[t].at = "sleep"))]_vars

----------------------------------------------------------------------------
(* What a failure and a stop write, under SpecSupervisor *)

\* The status fields other than connected and error_message.
Telemetry(st) ==
    <<st.message_count, st.message_types, st.last_message, st.last_message_type,
      st.last_update, st.connection_time, st.satellite_count, st.gps_satellites,
      st.glonass_satellites, st.galileo_satellites, st.beidou_satellites,
      st.total_satellites>>

\* The step in which an except clause of _run handles a session failure.
HandlesFailure == pc # "failed" /\ pc' = "failed" /\ error' # CancelledError

\* A step of async_stop: its call, or its resumption after an await.
StopStep == calls' = Append(calls, "stop") \/ stopPc' # stopPc

\* C34: failure and stop leave telemetry untouched.  The handling of a
\* session failure writes connected and error_message and no other status
\* field; no step of async_stop writes any status field, connected
\* included; and from the call of async_stop until an async_start takes
\* effect the counters, the message fields, the timestamps and the
\* satellite counts keep their values.
C34_TelemetryUntouched ==
    /\ [][HandlesFailure =>
              /\ Telemetry(status)' = Telemetry(status)
              /\ status' = [status EXCEPT !.connected = FALSE,
                                          !.error_message = status.error_message']]_vars
    /\ [][StopStep => status' = status]_vars
    /\ [][(stopping /\ stopping') => Telemetry(status)' = Telemetry(status)]_vars

\* C34 witness: a session that had processed a message with a satellite
\* count failed; the count and the message fields are as they were.
C34_Witness ==
    /\ pc = "failed"
    /\ error # CancelledError
    /\ ~status.connected
    /\ status.error_message # None
    /\ status.message_count > 0
    /\ status.total_satellites > 0
    /\ status.last_message # None
    /\ status.connection_time # None

\* C34 witness: async_stop has returned after the session had processed a
\* message; connected is still true.
C34_WitnessStop ==
    /\ Stopped
    /\ \A t \in 1..Len(tasks) : ~Running(t)
    /\ status.connected
    /\ status.message_count > 0

====
